---- MODULE Spec2Model ----
(***************************************************************************)
(* State-machine model of wgpu_2d's ShaderManager                          *)
(* (src/wgpu_2d/src/shader_manager/mod.rs): the four RwLock-protected      *)
(* tables, the include preprocessor get_source_new, the module and         *)
(* pipeline caches and reload.                                             *)
(*                                                                         *)
(* Conventions                                                             *)
(*  - a text (Rust str) is a sequence of characters; the literal           *)
(*    "#include" is one character of the alphabet, the other characters    *)
(*    stand for themselves;                                                *)
(*  - a HashMap is a function whose DOMAIN is the set of its keys;         *)
(*  - an Option is a set with at most one element ({} is None);            *)
(*  - a panic unwinds the calling thread: every write guard it holds is    *)
(*    dropped and its RwLock poisoned, and the thread goes back to idle    *)
(*    with the panic recorded in res.                                      *)
(***************************************************************************)
EXTENDS Integers, Sequences, FiniteSets, TLC

VARIABLES
    disk,                   \* the files under directory_path: path -> text
    source_files,           \* ShaderManager.source_files
    constant_source_files,  \* ShaderManager.constant_source_files
    shader_modules,         \* ShaderManager.shader_modules
    render_pipelines,       \* ShaderManager.render_pipelines
    writer,                 \* per RwLock: the thread holding its write guard
    poisoned,               \* the RwLocks a panicking writer has poisoned
    th,                     \* per thread: position and locals of its call
    res,                    \* per thread: outcome of its last finished call
    reloadPc,               \* position of the (exclusive) reload() call
    nextHandle,             \* next backend object id
    calls,                  \* number of get_* calls started so far
    registrations,          \* number of register_* calls started so far
    reloads,                \* number of reload() calls started so far
    edits,                  \* number of file edits so far
    handleAtReload,         \* history: nextHandle when the last reload() began
    editedSince,            \* history: the files edited since the last reload() began
    compiled,               \* history: create_shader_module calls per path since reload
    linked                  \* history: create_render_pipeline calls per label since reload

vars == <<disk, source_files, constant_source_files, shader_modules,
          render_pipelines, writer, poisoned, th, res, reloadPc, nextHandle,
          calls, registrations, reloads, edits, handleAtReload, editedSince,
          compiled, linked>>

---------------------------------------------------------------------------
(* Bounds of the model *)

\* get_module / get_render_pipeline calls in one behaviour
MaxCalls == 2
\* register_render_pipeline / register_constant_source calls
MaxRegistrations == 2
\* reload() calls
MaxReloads == 1
\* edits of the files under directory_path
MaxEdits == 1

Threads == {"t1", "t2"}
NoThread == "none"

---------------------------------------------------------------------------
(* Characters, texts and paths *)

NL == "\n"
INCLUDE == "#include"
LT == "<"
GT == ">"
SP == " "

PA == <<"A">>
PB == <<"B">>
Paths == {PA, PB}

EmptyMap == <<>>
Put(m, k, v) == [q \in (DOMAIN m) \cup {k} |-> IF q = k THEN v ELSE m[q]]
Get(m, k) == IF k \in DOMAIN m THEN {m[k]} ELSE {}
TheOne(s) == CHOOSE e \in s : TRUE

\* s[from..] and s[..to) of Rust, on 0-based byte offsets
Skip(s, n) == SubSeq(s, n + 1, Len(s))
Take(s, n) == SubSeq(s, 1, n)

\* 0-based offset of the first / last occurrence of character c in s, or -1
FirstIndex(s, c) ==
    IF \E i \in 1..Len(s) : s[i] = c
    THEN (CHOOSE i \in 1..Len(s) : s[i] = c /\ \A j \in 1..(i - 1) : s[j] # c) - 1
    ELSE -1
LastIndex(s, c) ==
    IF \E i \in 1..Len(s) : s[i] = c
    THEN (CHOOSE i \in 1..Len(s) : s[i] = c /\ \A j \in (i + 1)..Len(s) : s[j] # c) - 1
    ELSE -1

\* str::trim
RECURSIVE TrimStart(_)
TrimStart(s) == IF s # <<>> /\ Head(s) = SP THEN TrimStart(Tail(s)) ELSE s
RECURSIVE TrimEnd(_)
TrimEnd(s) == IF s # <<>> /\ s[Len(s)] = SP THEN TrimEnd(Take(s, Len(s) - 1)) ELSE s
Trim(s) == TrimEnd(TrimStart(s))

\* str::lines: the lines of input as [start, len] byte ranges (0-based start),
\* split at "\n", the terminator not part of the line, no line after a final "\n"
RECURSIVE LinesFrom(_, _)
LinesFrom(input, start) ==
    IF start >= Len(input) THEN <<>>
    ELSE LET nl == FirstIndex(Skip(input, start), NL)
         IN IF nl = -1
            THEN << [start |-> start, len |-> Len(input) - start] >>
            ELSE << [start |-> start, len |-> nl] >> \o LinesFrom(input, start + nl + 1)
Lines(input) == LinesFrom(input, 0)
LineText(input, line) == SubSeq(input, line.start + 1, line.start + line.len)

\* the closure of find_next_include: the include path named by one line, if any
IncludePath(lineText) ==
    LET trimmed == Trim(lineText)
        at == FirstIndex(trimmed, INCLUDE)
        path_container == Trim(Skip(trimmed, at + 1))
        lt == FirstIndex(path_container, LT)
        afterLt == Skip(path_container, lt + 1)
        gt == LastIndex(afterLt, GT)
    IN IF at = -1 \/ lt = -1 \/ gt = -1 THEN {} ELSE {Take(afterLt, gt)}

\* a search that looks at the first line only
first_line_include(input) ==
    LET ls == Lines(input)
    IN IF ls = <<>> \/ IncludePath(LineText(input, ls[1])) = {} THEN {}
       ELSE {[line |-> ls[1], include |-> TheOne(IncludePath(LineText(input, ls[1])))]}

\* find_next_include: the first line naming an include, with the path it names
find_next_include(input) ==
    LET ls == Lines(input)
        hits == {i \in 1..Len(ls) : IncludePath(LineText(input, ls[i])) # {}}
    IN IF hits = {} THEN {}
       ELSE LET i == CHOOSE k \in hits : \A j \in hits : k <= j
            IN {[line |-> ls[i], include |-> TheOne(IncludePath(LineText(input, ls[i])))]}

\* source.as_ptr().offset_from(line.as_ptr()): the distance from the line's
\* first byte to the source's first byte, in bytes
OffsetFromLine(line) == 0 - line.start

---------------------------------------------------------------------------
(* The data the calls are made with *)

\* main.wgsl-like file: its first line includes B
TIncB == <<INCLUDE, SP, LT, "B", GT, NL, "y">>
\* the same with a line before the directive
TLateIncB == <<"x", NL, INCLUDE, SP, LT, "B", GT, NL, "y">>
TPlain == <<"b">>
TOther == <<"c">>

\* what an edit can write to a file
FileTexts == {TPlain, TLateIncB}
\* the texts register_constant_source is called with
ConstTexts == {TPlain, TOther}

\* include files and the texts of a store of fragments: a directive line
\* naming path, texts with one directive, with two, and without
PC == <<"C">>
PD == <<"D">>
ExpandPaths == {PA, PB, PC, PD}
IncludeLine(path) == <<INCLUDE, SP, LT>> \o path \o <<GT>>
TwoIncludes(p, q) == IncludeLine(p) \o <<NL>> \o IncludeLine(q)
TextsA == {TIncB, TLateIncB, TwoIncludes(PB, PB), TwoIncludes(PB, PC), IncludeLine(PA)}
TextsB == {TPlain, IncludeLine(PA), IncludeLine(PC), IncludeLine(PD)}
TextsC == {TOther, IncludeLine(PB), IncludeLine(PD)}
TextsD == {<<"d">>}
\* the stores: A, B and C have a file, D has one or none
ExpandStores ==
    {(PA :> a) @@ (PB :> b) @@ (PC :> c) @@ d :
        a \in TextsA, b \in TextsB, c \in TextsC,
        d \in {EmptyMap} \cup {(PD :> t) : t \in TextsD}}
\* the module paths get_module is called with
ExpandRoots == {PA, PC}

Labels == {"P"}
\* RenderPipelineDescriptorTemplate: the module paths of its stages; fixed
\* stands for all its fixed-function fields
TemplateV == [vertex |-> PA, fragment |-> {}, fixed |-> "triangles"]
TemplateVF == [vertex |-> PA, fragment |-> {PB}, fixed |-> "points"]
Templates == {TemplateV, TemplateVF}
\* templates whose stages are two roots, and the same root twice
TemplateAC == [vertex |-> PA, fragment |-> {PC}, fixed |-> "points"]
TemplateAA == [vertex |-> PA, fragment |-> {PA}, fixed |-> "lines"]
ExpandTemplates == {TemplateV, TemplateAC, TemplateAA}

LockNames == {"source_files", "constant_source_files", "shader_modules", "render_pipelines"}

---------------------------------------------------------------------------
(* Thread-local state *)

IdleThread ==
    [pc |-> "idle", op |-> "none", label |-> "", path |-> <<>>, stage |-> "none",
     template |-> {},
     target |-> <<>>, isRoot |-> FALSE, source |-> <<>>, includes |-> {},
     line |-> [start |-> 0, len |-> 0],
     disk_source_file |-> {}, const_source_file |-> {}, vmod |-> {}, fmod |-> {},
     compiles |-> 0, links |-> 0, probes |-> {}, reads |-> {}, missed |-> FALSE,
     inserted |-> {}, root |-> {}, onDisk |-> FALSE, embedded |-> FALSE]

\* The outcome of a call: how it ended, what it returned and what it did.
\* stale: a reload() began after the call ended.  repeat: the call before it
\* on this thread was the same call (op, path, label) and returned; prev* are
\* then that call's stale, handle, compiles and missed.  onDisk, embedded: when
\* get_module(path) was called, a file was at path and a constant source was
\* registered at path.
NoResult ==
    [op |-> "none", path |-> <<>>, label |-> "", status |-> "none", err |-> "",
     errPath |-> {}, handle |-> {}, stale |-> FALSE, compiles |-> 0, links |-> 0,
     probes |-> {}, reads |-> {}, missed |-> FALSE, inserted |-> {}, root |-> {},
     target |-> <<>>, disk_source_file |-> {}, const_source_file |-> {},
     onDisk |-> FALSE, embedded |-> FALSE,
     repeat |-> FALSE, prevStale |-> FALSE, prevHandle |-> {}, prevCompiles |-> 0,
     prevMissed |-> FALSE]

\* the outcome of the call thread record r was making, old the outcome before
ResultOf(r, old, status, err, errPath, handle) ==
    LET repeat == /\ old.status = "ok" /\ old.op = r.op /\ old.label = r.label
                  /\ r.op \in {"get_module", "get_file_from_disk"} => old.path = r.path
    IN [op |-> r.op, path |-> r.path, label |-> r.label, status |-> status,
        err |-> err, errPath |-> errPath, handle |-> handle, stale |-> FALSE,
        compiles |-> r.compiles, links |-> r.links, probes |-> r.probes,
        reads |-> r.reads, missed |-> r.missed, inserted |-> r.inserted,
        root |-> r.root, target |-> r.target,
        disk_source_file |-> r.disk_source_file,
        const_source_file |-> r.const_source_file,
        onDisk |-> r.onDisk, embedded |-> r.embedded,
        repeat |-> repeat,
        prevStale |-> repeat /\ old.stale,
        prevHandle |-> IF repeat THEN old.handle ELSE {},
        prevCompiles |-> IF repeat THEN old.compiles ELSE 0,
        prevMissed |-> repeat /\ old.missed]

\* the call of thread t ends (by return or by panic) with its locals r
Finish(t, r, status, err, errPath, handle) ==
    /\ th' = [th EXCEPT ![t] = IdleThread]
    /\ res' = [res EXCEPT ![t] = ResultOf(r, res[t], status, err, errPath, handle)]

\* an unwinding that poisons the lock of a read guard too
UnwindPoisoningReaders(t) ==
    /\ poisoned' = poisoned \cup {l \in LockNames : writer[l] = t}
                       \cup (IF th[t].pc = "gp_read" THEN {"render_pipelines"} ELSE {})
    /\ writer' = [l \in LockNames |-> IF writer[l] = t THEN NoThread ELSE writer[l]]

\* unwinding drops the write guards of t; a guard dropped while panicking
\* poisons its lock
Unwind(t) ==
    /\ poisoned' = poisoned \cup {l \in LockNames : writer[l] = t}
    /\ writer' = [l \in LockNames |-> IF writer[l] = t THEN NoThread ELSE writer[l]]

Panic(t, r, err, errPath) ==
    /\ Finish(t, r, "panic", err, errPath, {})
    /\ Unwind(t)

\* RwLock::read / RwLock::write return Err on a poisoned lock; unwrap panics
Poisoned(lock) == lock \in poisoned

\* a write guard that outlives the statement that took it
KeepGuard(lock) == writer

\* the write guard on lock is a temporary: it is dropped when the statement
\* that took it ends
DropGuard(lock) == [writer EXCEPT ![lock] = NoThread]

Init ==
    /\ disk = Put(EmptyMap, PA, TIncB)
    /\ source_files = EmptyMap
    /\ constant_source_files = EmptyMap
    /\ shader_modules = EmptyMap
    /\ render_pipelines = EmptyMap
    /\ writer = [l \in LockNames |-> NoThread]
    /\ poisoned = {}
    /\ th = [t \in Threads |-> IdleThread]
    /\ res = [t \in Threads |-> NoResult]
    /\ reloadPc = "idle"
    /\ nextHandle = 1
    /\ calls = 0
    /\ registrations = 0
    /\ reloads = 0
    /\ edits = 0
    /\ handleAtReload = 1
    /\ editedSince = {}
    /\ compiled = EmptyMap
    /\ linked = EmptyMap

\* a manager constructed over a directory that holds one of the stores
InitExpand ==
    /\ disk \in ExpandStores
    /\ source_files = EmptyMap
    /\ constant_source_files = EmptyMap
    /\ shader_modules = EmptyMap
    /\ render_pipelines = EmptyMap
    /\ writer = [l \in LockNames |-> NoThread]
    /\ poisoned = {}
    /\ th = [t \in Threads |-> IdleThread]
    /\ res = [t \in Threads |-> NoResult]
    /\ reloadPc = "idle"
    /\ nextHandle = 1
    /\ calls = 0
    /\ registrations = 0
    /\ reloads = 0
    /\ edits = 0
    /\ handleAtReload = 1
    /\ editedSince = {}
    /\ compiled = EmptyMap
    /\ linked = EmptyMap

tablesV == <<source_files, constant_source_files, shader_modules, render_pipelines>>
locksV == <<writer, poisoned>>
histV == <<nextHandle, compiled, linked>>
envV == <<disk, editedSince, edits>>
countV == <<calls, registrations, reloads>>
reloadV == <<reloadPc, handleAtReload>>

\* Calls are handed to the first idle thread.  A call may start when no
\* reload() is running (reload takes &mut self).
Rank == ("t1" :> 1) @@ ("t2" :> 2)
FirstIdle(t) ==
    /\ th[t].pc = "idle"
    /\ \A u \in Threads : th[u].pc = "idle" => Rank[t] <= Rank[u]

\* a caller that may start while reload is running
ReadyDuringReload(t) == FirstIdle(t)

\* reload(&mut self): no call through &self starts while reload runs
Ready(t) == FirstIdle(t) /\ reloadPc = "idle"
CanRegister(t) == Ready(t) /\ registrations < MaxRegistrations
CanStart(t) == Ready(t) /\ calls < MaxCalls
Count(m, k) == IF k \in DOMAIN m THEN m[k] ELSE 0

---------------------------------------------------------------------------
(* get_source_new: resolution of one fragment and include expansion *)

\* a match that takes the file on disk when both are Some
ResolveMatchPreferDisk(disk_source_file, const_source_file) ==
    IF disk_source_file # {}
    THEN [ok |-> TRUE, err |-> "", text |-> TheOne(disk_source_file)]
    ELSE IF const_source_file # {}
    THEN [ok |-> TRUE, err |-> "", text |-> TheOne(const_source_file)]
    ELSE [ok |-> FALSE, err |-> "not found on disk or in constant shaders", text |-> <<>>]

\* a match that looks at the file on disk alone
ResolveMatchDiskOnly(disk_source_file, const_source_file) ==
    IF disk_source_file # {}
    THEN [ok |-> TRUE, err |-> "", text |-> TheOne(disk_source_file)]
    ELSE [ok |-> FALSE, err |-> "not found on disk or in constant shaders", text |-> <<>>]

\* the match on (disk_source_file, const_source_file): exactly one is Some
ResolveMatch(disk_source_file, const_source_file) ==
    IF disk_source_file # {} /\ const_source_file # {}
    THEN [ok |-> FALSE, err |-> "available on disk and in constant shaders", text |-> <<>>]
    ELSE IF disk_source_file = {} /\ const_source_file = {}
    THEN [ok |-> FALSE, err |-> "not found on disk or in constant shaders", text |-> <<>>]
    ELSE [ok |-> TRUE, err |-> "", text |-> TheOne(disk_source_file \cup const_source_file)]

\* an expansion that appends the included text and keeps the directive line
SpliceAppend(source, line, middle) == source \o middle

\* first + middle + last: first is the source up to offset, last the source
\* from offset + line.len on
Splice(source, line, middle) ==
    LET offset == OffsetFromLine(line)
        first == Take(source, offset)
        start_offset == OffsetFromLine(line) + line.len
        last == Skip(source, start_offset)
    IN first \o middle \o last

\* a visited set that never reports a path as seen
NeverSeen(includes, include) == FALSE

\* !includes.insert(include): the path was in the visited set already
AlreadySeen(includes, include) == include \in includes

\* The head of the while-let loop and its body up to the lookup of the
\* include: no directive left (return), the path was seen (panic), the
\* offset does not convert to usize (panic), or the include is looked up.
\* (table is filled in by Resolved.)
LoopHead(r) ==
    LET found == find_next_include(r.source)
    IN IF found = {}
       THEN [kind |-> "return", err |-> "", errPath |-> {}, table |-> EmptyMap,
             r |-> [r EXCEPT !.pc = "compile"]]
       ELSE LET hit == TheOne(found)
                seen == [r EXCEPT !.includes = @ \cup {hit.include}]
            IN IF AlreadySeen(r.includes, hit.include)
               THEN [kind |-> "panic", err |-> "include path already seen",
                     errPath |-> {hit.include, r.path}, table |-> EmptyMap, r |-> r]
               ELSE IF OffsetFromLine(hit.line) < 0
               THEN [kind |-> "panic", err |-> "line must be after or equal to source start",
                     errPath |-> {}, table |-> EmptyMap, r |-> seen]
               ELSE [kind |-> "lookup", err |-> "", errPath |-> {}, table |-> EmptyMap,
                     r |-> [seen EXCEPT !.line = hit.line, !.target = hit.include,
                                        !.isRoot = FALSE, !.pc = "resolve"]]

\* a lookup in source_files alone, without read_to_string
get_file_from_cache(path) ==
    [value |-> Get(source_files, path), table |-> source_files,
     probed |-> {}, read |-> {}]

\* get_file_from_disk, lines 92-122: the cached text if there is one, else
\* read_to_string(directory_path + path), cached on success; NotFound gives
\* None.  table is source_files afterwards.
get_file_from_disk(path) ==
    IF path \in DOMAIN source_files
    THEN [value |-> {source_files[path]}, table |-> source_files,
          probed |-> {}, read |-> {}]
    ELSE IF path \in DOMAIN disk
    THEN [value |-> {disk[path]}, table |-> Put(source_files, path, disk[path]),
          probed |-> {path}, read |-> {path}]
    ELSE [value |-> {}, table |-> source_files, probed |-> {path}, read |-> {}]

\* get_file_from_constant_source, lines 125-136
get_file_from_constant_source(path) == Get(constant_source_files, path)

\* One fragment resolved by thread locals r and the loop run up to the next
\* lookup: both lookups (lines 144-145, 197-198), the match on them, the
\* splice of an include (line 245), then the loop head.  The call goes on
\* with r (kind "lookup" or "return") or panics.
Resolved(r) ==
    LET fromDisk == get_file_from_disk(r.target)
        const_source_file == get_file_from_constant_source(r.target)
        r0 == [r EXCEPT !.disk_source_file = fromDisk.value,
                        !.probes = @ \cup fromDisk.probed,
                        !.reads = @ \cup fromDisk.read]
        r1 == [r0 EXCEPT !.const_source_file = const_source_file]
        m == ResolveMatch(fromDisk.value, const_source_file)
        r2 == IF r1.isRoot
              THEN [r1 EXCEPT !.source = m.text, !.root = {m.text}]
              ELSE [r1 EXCEPT !.source = Splice(r1.source, r1.line, m.text)]
    IN IF Poisoned("source_files")
       THEN [kind |-> "panic", err |-> "poisoned lock", errPath |-> {}, r |-> r,
             table |-> source_files]
       ELSE IF Poisoned("constant_source_files")
       THEN [kind |-> "panic", err |-> "poisoned lock", errPath |-> {}, r |-> r0,
             table |-> fromDisk.table]
       ELSE IF ~m.ok
       THEN [kind |-> "panic", err |-> m.err, errPath |-> {r.path}, r |-> r1,
             table |-> fromDisk.table]
       ELSE [LoopHead(r2) EXCEPT !.table = fromDisk.table]

\* the step of get_source_new that resolves the include the loop found
Resolve(t) ==
    /\ th[t].pc = "resolve"
    /\ LET next == Resolved(th[t])
       IN /\ source_files' = next.table
          /\ IF next.kind = "panic"
             THEN Panic(t, next.r, next.err, next.errPath)
             ELSE /\ th' = [th EXCEPT ![t] = next.r]
                  /\ UNCHANGED <<res, locksV>>
    /\ UNCHANGED <<constant_source_files, shader_modules, render_pipelines,
                   histV, envV, reloadV, countV>>

---------------------------------------------------------------------------
(* get_file_from_disk step by step, as it runs when several callers are in *)
(* it at once and the files change under it.  (Within get_module it runs   *)
(* under the write guard of shader_modules, one caller at a time; there    *)
(* the operator get_file_from_disk above gives its effect.)                *)

StartGetFileFromDisk(t, path) ==
    /\ CanStart(t)
    /\ th' = [th EXCEPT ![t] = [IdleThread EXCEPT !.pc = "fd_lookup",
                                                  !.op = "get_file_from_disk",
                                                  !.path = path]]
    /\ calls' = calls + 1
    /\ UNCHANGED <<res, locksV, tablesV, histV, envV, reloadV, registrations, reloads>>

\* a lookup that never finds the text
NoCachedSource(path) == {}

\* source_files.read().unwrap().get(path)
CachedSource(path) == Get(source_files, path)

\* lines 93-102: the lookup under the read guard; Some(file) returns it
FD_Lookup(t) ==
    /\ th[t].pc = "fd_lookup"
    /\ writer["source_files"] = NoThread
    /\ IF Poisoned("source_files")
       THEN Panic(t, th[t], "poisoned lock", {})
       ELSE /\ UNCHANGED locksV
            /\ IF CachedSource(th[t].path) # {}
               THEN Finish(t, th[t], "ok", "", {}, CachedSource(th[t].path))
               ELSE /\ th' = [th EXCEPT ![t].pc = "fd_read", ![t].missed = TRUE]
                    /\ UNCHANGED res
    /\ UNCHANGED <<tablesV, histV, envV, reloadV, countV>>

\* line 103 and 115-120: read_to_string(directory_path + path) gives the
\* file's text, or NotFound (None is returned), or another error (panic)
FD_ReadToString(t) ==
    /\ th[t].pc = "fd_read"
    /\ LET path == th[t].path
           r == [th[t] EXCEPT !.probes = @ \cup {path}]
       IN \/ /\ path \in DOMAIN disk
             /\ th' = [th EXCEPT ![t] = [r EXCEPT !.pc = "fd_insert",
                                                  !.source = disk[path],
                                                  !.root = {disk[path]},
                                                  !.reads = @ \cup {path}]]
             /\ UNCHANGED <<res, locksV>>
          \/ /\ path \notin DOMAIN disk
             /\ Finish(t, r, "ok", "", {}, {})
             /\ UNCHANGED locksV
          \/ Panic(t, r, "error while attempting to read file", {path})
    /\ UNCHANGED <<tablesV, histV, envV, reloadV, countV>>

\* an insert that replaces the text cached at path
OverwriteSource(table, path, file) == Put(table, path, file)

\* entry(path).or_insert(file): a text cached at path is left alone
InsertSource(table, path, file) ==
    IF path \in DOMAIN table THEN table ELSE Put(table, path, file)

\* line 113: write().unwrap().entry(path).or_insert(file); the entry's text
\* is returned
FD_Insert(t) ==
    /\ th[t].pc = "fd_insert"
    /\ writer["source_files"] = NoThread
    /\ IF Poisoned("source_files")
       THEN /\ Panic(t, th[t], "poisoned lock", {})
            /\ UNCHANGED source_files
       ELSE LET path == th[t].path
                table == InsertSource(source_files, path, th[t].source)
                r == [th[t] EXCEPT !.inserted = IF path \in DOMAIN source_files THEN @
                                                ELSE @ \cup {path}]
            IN /\ source_files' = table
               /\ Finish(t, r, "ok", "", {}, {table[path]})
               /\ UNCHANGED locksV
    /\ UNCHANGED <<constant_source_files, shader_modules, render_pipelines,
                   histV, envV, reloadV, countV>>

---------------------------------------------------------------------------
(* get_module and read_and_get_module *)

\* module paths without the fragment stage
VertexPathOnly(template) == <<template.vertex, {}>>

\* get_module_paths: (vertex.module_path, fragment.map(|x| x.module_path))
ModulePaths(template) == <<template.vertex, template.fragment>>

\* the module get_module found or inserted is handed to its caller: the
\* caller of a direct call, or compile_pipeline (lines 315-322), which asks
\* for the vertex module, then for the fragment module if the template has a
\* fragment stage, then links
ReturnModule(t, r, h) ==
    IF r.stage = "direct"
    THEN Finish(t, r, "ok", "", {}, {h})
    ELSE /\ UNCHANGED res
         /\ LET fragment_path == ModulePaths(render_pipelines[r.label].template)[2]
            IN th' = [th EXCEPT ![t] =
                 IF r.stage = "vertex" /\ fragment_path # {}
                 THEN [r EXCEPT !.vmod = {h}, !.path = TheOne(fragment_path),
                                !.stage = "fragment", !.pc = "gm_read"]
                 ELSE IF r.stage = "vertex"
                 THEN [r EXCEPT !.vmod = {h}, !.pc = "link"]
                 ELSE [r EXCEPT !.fmod = {h}, !.pc = "link"]]

\* the internal get_module called on its own
StartGetModule(t, path) ==
    /\ CanStart(t)
    /\ th' = [th EXCEPT ![t] = [IdleThread EXCEPT !.pc = "gm_read", !.op = "get_module",
                                                  !.path = path, !.stage = "direct",
                                                  !.onDisk = path \in DOMAIN disk,
                                                  !.embedded = path \in DOMAIN constant_source_files]]
    /\ calls' = calls + 1
    /\ UNCHANGED <<res, locksV, tablesV, histV, envV, reloadV, registrations, reloads>>

\* a lookup that never finds the module
NoCachedModule(path) == {}

\* shader_modules.read().unwrap().get(path)
CachedModule(path) == Get(shader_modules, path)

\* lines 285-288: the lookup under the read guard
GM_Read(t) ==
    /\ th[t].pc = "gm_read"
    /\ writer["shader_modules"] = NoThread
    /\ IF Poisoned("shader_modules")
       THEN Panic(t, th[t], "poisoned lock", {})
       ELSE /\ UNCHANGED locksV
            /\ IF CachedModule(th[t].path) # {}
               THEN ReturnModule(t, th[t], TheOne(CachedModule(th[t].path)))
               ELSE /\ th' = [th EXCEPT ![t].pc = "gm_write", ![t].missed = TRUE]
                    /\ UNCHANGED res
    /\ UNCHANGED <<tablesV, histV, envV, reloadV, countV>>

\* a visited set kept from the expansion the thread made before
CarriedIncludes(r) == r.includes

\* let mut includes = HashSet::new(): each get_source_new starts its own
FreshIncludes(r) == {}

\* lines 298-300: write().unwrap().entry(path); the argument of or_insert,
\* Box::new(self.read_and_get_module(path, context)), is evaluated next,
\* whatever the entry holds: get_source_new starts and resolves the root
GM_Write(t) ==
    /\ th[t].pc = "gm_write"
    /\ writer["shader_modules"] = NoThread
    /\ IF Poisoned("shader_modules")
       THEN /\ Panic(t, th[t], "poisoned lock", {})
            /\ UNCHANGED source_files
       ELSE LET next == Resolved([th[t] EXCEPT !.target = th[t].path, !.isRoot = TRUE,
                                               !.includes = FreshIncludes(th[t])])
            IN /\ source_files' = next.table
               /\ IF next.kind = "panic"
                  THEN /\ Finish(t, next.r, "panic", next.err, next.errPath, {})
                       /\ poisoned' = poisoned \cup {"shader_modules"}
                                         \cup {l \in LockNames : writer[l] = t}
                       /\ writer' = [l \in LockNames |->
                                        IF writer[l] = t THEN NoThread ELSE writer[l]]
                  ELSE /\ writer' = [writer EXCEPT !["shader_modules"] = t]
                       /\ th' = [th EXCEPT ![t] = next.r]
                       /\ UNCHANGED <<res, poisoned>>
    /\ UNCHANGED <<constant_source_files, shader_modules, render_pipelines,
                   histV, envV, reloadV, countV>>

\* an insert that replaces the module cached at path
OverwriteModule(table, path, module) == Put(table, path, module)

\* entry(path).or_insert(module): a module cached at path is left alone
InsertModule(table, path, module) ==
    IF path \in DOMAIN table THEN table ELSE Put(table, path, module)

\* lines 268-273 and 300-301: create_shader_module on the expanded source,
\* or_insert of the new module, the entry's module returned, the guard dropped
Compile(t) ==
    /\ th[t].pc = "compile"
    /\ LET path == th[t].path
           module == [id |-> nextHandle, path |-> path, src |-> th[t].source,
                      root |-> TheOne(th[t].root)]
           table == InsertModule(shader_modules, path, module)
           r == [th[t] EXCEPT !.compiles = @ + 1,
                              !.inserted = IF path \in DOMAIN shader_modules THEN @
                                           ELSE @ \cup {path}]
       IN /\ shader_modules' = table
          /\ nextHandle' = nextHandle + 1
          /\ compiled' = Put(compiled, path, Count(compiled, path) + 1)
          /\ writer' = DropGuard("shader_modules")
          /\ ReturnModule(t, r, table[path])
    /\ UNCHANGED <<source_files, constant_source_files, render_pipelines, poisoned,
                   linked, envV, reloadV, countV>>

\* line 268-273: create_shader_module rejects the source and the device's
\* error handler panics, under the write guard
\* an entry filled before its value was computed
EntryFilled(table, path) ==
    Put(table, path, [id |-> 0, path |-> path, src |-> <<>>, root |-> <<>>])

\* entry(path).or_insert(value): value is computed first; when computing it
\* panics the vacant Entry is dropped and the table is as it was
EntryDropped(table, path) == table

CompileFails(t) ==
    /\ th[t].pc = "compile"
    /\ Panic(t, th[t], "shader module creation failed", {th[t].path})
    /\ shader_modules' = EntryDropped(shader_modules, th[t].path)
    /\ UNCHANGED <<source_files, constant_source_files, render_pipelines,
                   histV, envV, reloadV, countV>>

---------------------------------------------------------------------------
(* get_render_pipeline and compile_pipeline *)

StartGetRenderPipeline(t, label) ==
    /\ CanStart(t)
    /\ th' = [th EXCEPT ![t] = [IdleThread EXCEPT !.pc = "gp_read",
                                                  !.op = "get_render_pipeline",
                                                  !.label = label]]
    /\ calls' = calls + 1
    /\ UNCHANGED <<res, locksV, tablesV, histV, envV, reloadV, registrations, reloads>>

\* lines 348-360: the lookup under the read guard
GP_Read(t) ==
    /\ th[t].pc = "gp_read"
    /\ writer["render_pipelines"] = NoThread
    /\ LET label == th[t].label
       IN IF Poisoned("render_pipelines")
          THEN Panic(t, th[t], "poisoned lock", {})
          ELSE IF label \notin DOMAIN render_pipelines
          THEN Panic(t, th[t], "label that wasn't registered", {})
          ELSE /\ UNCHANGED locksV
               /\ IF render_pipelines[label].pipeline # {}
                  THEN Finish(t, th[t], "ok", "", {}, render_pipelines[label].pipeline)
                  ELSE /\ th' = [th EXCEPT ![t].pc = "gp_write", ![t].missed = TRUE]
                       /\ UNCHANGED res
    /\ UNCHANGED <<tablesV, histV, envV, reloadV, countV>>

\* a get_or_insert_with that runs its closure whatever the Option holds
AlwaysLink(pipeline) == TRUE

\* Option::get_or_insert_with runs its closure only on None
NeedsLink(pipeline) == pipeline = {}

\* lines 362-373: write().unwrap().get_mut(label).unwrap(), then
\* get_or_insert_with(|| compile_pipeline(template))
GP_Write(t) ==
    /\ th[t].pc = "gp_write"
    /\ writer["render_pipelines"] = NoThread
    /\ LET label == th[t].label
       IN IF Poisoned("render_pipelines")
          THEN Panic(t, th[t], "poisoned lock", {})
          ELSE IF NeedsLink(render_pipelines[label].pipeline)
          THEN /\ writer' = [writer EXCEPT !["render_pipelines"] = t]
               /\ th' = [th EXCEPT ![t].pc = "gm_read", ![t].stage = "vertex",
                                   ![t].path = ModulePaths(render_pipelines[label].template)[1]]
               /\ UNCHANGED <<res, poisoned>>
          ELSE /\ Finish(t, th[t], "ok", "", {}, render_pipelines[label].pipeline)
               /\ UNCHANGED locksV
    /\ UNCHANGED <<tablesV, histV, envV, reloadV, countV>>

\* line 322 and 373-376: create_render_pipeline on the resolved descriptor,
\* the pipeline stored in the label's entry, the guard dropped
Link(t) ==
    /\ th[t].pc = "link"
    /\ LET label == th[t].label
           pipeline == [id |-> nextHandle, label |-> label,
                        fixed |-> render_pipelines[label].template.fixed,
                        vertex |-> th[t].vmod, fragment |-> th[t].fmod]
       IN /\ render_pipelines' = [render_pipelines EXCEPT ![label].pipeline = {pipeline}]
          /\ nextHandle' = nextHandle + 1
          /\ linked' = Put(linked, label, Count(linked, label) + 1)
          /\ writer' = DropGuard("render_pipelines")
          /\ Finish(t, [th[t] EXCEPT !.links = @ + 1], "ok", "", {}, {pipeline})
    /\ UNCHANGED <<source_files, constant_source_files, shader_modules, poisoned,
                   compiled, envV, reloadV, countV>>

---------------------------------------------------------------------------
(* Registration *)

StartRegisterRenderPipeline(t, label, template) ==
    /\ CanRegister(t)
    /\ th' = [th EXCEPT ![t] = [IdleThread EXCEPT !.pc = "rp_read",
                                                  !.op = "register_render_pipeline",
                                                  !.label = label,
                                                  !.template = {template}]]
    /\ registrations' = registrations + 1
    /\ UNCHANGED <<res, locksV, tablesV, histV, envV, reloadV, calls, reloads>>

\* lines 386-389: a registered label returns at once
RP_Read(t) ==
    /\ th[t].pc = "rp_read"
    /\ writer["render_pipelines"] = NoThread
    /\ IF Poisoned("render_pipelines")
       THEN Panic(t, th[t], "poisoned lock", {})
       ELSE /\ UNCHANGED locksV
            /\ IF th[t].label \in DOMAIN render_pipelines
               THEN Finish(t, th[t], "ok", "", {}, {})
               ELSE /\ th' = [th EXCEPT ![t].pc = "rp_write", ![t].missed = TRUE]
                    /\ UNCHANGED res
    /\ UNCHANGED <<tablesV, histV, envV, reloadV, countV>>

\* an insert that replaces the entry of the label
OverwriteTemplate(table, label, template) ==
    Put(table, label, [template |-> template, pipeline |-> {}])

\* entry(label).or_insert((template, None)): an existing entry is left alone
InsertTemplate(table, label, template) ==
    IF label \in DOMAIN table THEN table
    ELSE Put(table, label, [template |-> template, pipeline |-> {}])

\* lines 395-396: entry(label).or_insert((template, None))
RP_Write(t) ==
    /\ th[t].pc = "rp_write"
    /\ writer["render_pipelines"] = NoThread
    /\ IF Poisoned("render_pipelines")
       THEN /\ Panic(t, th[t], "poisoned lock", {})
            /\ UNCHANGED render_pipelines
       ELSE /\ render_pipelines' = InsertTemplate(render_pipelines, th[t].label,
                                                  TheOne(th[t].template))
            /\ Finish(t, th[t], "ok", "", {}, {})
            /\ UNCHANGED locksV
    /\ UNCHANGED <<source_files, constant_source_files, shader_modules, histV, envV,
                   reloadV, countV>>

\* a match that never reports a conflict
NoConflict(table, path, source) == FALSE

\* the second match arm: a source is registered at path and differs
ConstantSourceConflict(table, path, source) ==
    path \in DOMAIN table /\ table[path] # source

\* register_constant_source, lines 411-425, under one write guard; the panic
\* on a conflicting source unwinds through the guard
RegisterConstantSource(t, path, source) ==
    /\ CanRegister(t)
    /\ registrations' = registrations + 1
    /\ LET r == [IdleThread EXCEPT !.op = "register_constant_source", !.path = path]
       IN IF Poisoned("constant_source_files")
          THEN /\ Panic(t, r, "poisoned lock", {})
               /\ UNCHANGED constant_source_files
          ELSE IF ConstantSourceConflict(constant_source_files, path, source)
          THEN /\ Finish(t, r, "panic", "conflicting source files", {path}, {})
               /\ poisoned' = poisoned \cup {"constant_source_files"}
               /\ UNCHANGED <<writer, constant_source_files>>
          ELSE /\ constant_source_files' =
                    IF path \in DOMAIN constant_source_files THEN constant_source_files
                    ELSE Put(constant_source_files, path, source)
               /\ Finish(t, r, "ok", "", {}, {})
               /\ UNCHANGED locksV
    /\ UNCHANGED <<source_files, shader_modules, render_pipelines, histV, envV,
                   reloadV, calls, reloads>>

---------------------------------------------------------------------------
(* reload: &mut self, so no other call is in flight while it runs *)

\* a reload that leaves a table as it is
KeptSources(table) == table
KeptModules(table) == table
KeptPipeline(entry) == entry

\* HashMap::clear on source_files (line 432) and on shader_modules (line 433)
ClearedSources(table) == EmptyMap
ClearedModules(table) == EmptyMap
\* |(_, (_, x))| *x = None
ResetPipeline(entry) == [entry EXCEPT !.pipeline = {}]

\* line 432: source_files.get_mut().unwrap().clear()
ReloadStart ==
    /\ reloadPc = "idle"
    /\ \A t \in Threads : th[t].pc = "idle"
    /\ reloads < MaxReloads
    /\ reloads' = reloads + 1
    /\ handleAtReload' = nextHandle
    /\ editedSince' = {}
    /\ res' = [t \in Threads |-> [res[t] EXCEPT !.stale = res[t].status # "none"]]
    /\ IF Poisoned("source_files")
       THEN /\ reloadPc' = "panicked"
            /\ UNCHANGED source_files
       ELSE /\ reloadPc' = "modules"
            /\ source_files' = ClearedSources(source_files)
    /\ UNCHANGED <<constant_source_files, shader_modules, render_pipelines, locksV,
                   th, histV, disk, edits, calls, registrations>>

\* line 433: shader_modules.get_mut().unwrap().clear()
ReloadModules ==
    /\ reloadPc = "modules"
    /\ IF Poisoned("shader_modules")
       THEN /\ reloadPc' = "panicked"
            /\ UNCHANGED <<shader_modules, compiled>>
       ELSE /\ reloadPc' = "pipelines"
            /\ shader_modules' = ClearedModules(shader_modules)
            /\ compiled' = EmptyMap
    /\ UNCHANGED <<source_files, constant_source_files, render_pipelines, locksV,
                   th, res, nextHandle, linked, envV, handleAtReload, countV>>

\* lines 434-438: every label's pipeline set to None
ReloadPipelines ==
    /\ reloadPc = "pipelines"
    /\ IF Poisoned("render_pipelines")
       THEN /\ reloadPc' = "panicked"
            /\ UNCHANGED <<render_pipelines, linked>>
       ELSE /\ reloadPc' = "returned"
            /\ render_pipelines' = [l \in DOMAIN render_pipelines |->
                                      ResetPipeline(render_pipelines[l])]
            /\ linked' = EmptyMap
    /\ UNCHANGED <<source_files, constant_source_files, shader_modules, locksV,
                   th, res, nextHandle, compiled, envV, handleAtReload, countV>>

\* reload has returned (or its panic has unwound); other calls may start
ReloadEnd ==
    /\ reloadPc \in {"returned", "panicked"}
    /\ reloadPc' = "idle"
    /\ UNCHANGED <<tablesV, locksV, th, res, histV, envV, handleAtReload, countV>>

---------------------------------------------------------------------------
(* The file system under directory_path, edited from outside the program. *)
(* A call reads a file at most once, in one read_to_string, so an edit made *)
(* while calls run has the effect of the same edit made before or after     *)
(* them: edits are taken between calls.                                     *)

Quiescent == reloadPc = "idle" /\ \A t \in Threads : th[t].pc = "idle"

WriteFile(path, text) ==
    /\ edits < MaxEdits
    /\ Quiescent
    /\ Get(disk, path) # {text}
    /\ disk' = Put(disk, path, text)
    /\ editedSince' = editedSince \cup {path}
    /\ edits' = edits + 1
    /\ UNCHANGED <<tablesV, locksV, th, res, histV, reloadV, countV>>

DeleteFile(path) ==
    /\ edits < MaxEdits
    /\ Quiescent
    /\ path \in DOMAIN disk
    /\ disk' = [q \in (DOMAIN disk) \ {path} |-> disk[q]]
    /\ editedSince' = editedSince \cup {path}
    /\ edits' = edits + 1
    /\ UNCHANGED <<tablesV, locksV, th, res, histV, reloadV, countV>>

\* the same edits made at any time, also while calls run
WriteFileAnytime(path, text) ==
    /\ edits < MaxEdits
    /\ reloadPc = "idle"
    /\ Get(disk, path) # {text}
    /\ disk' = Put(disk, path, text)
    /\ editedSince' = editedSince \cup {path}
    /\ edits' = edits + 1
    /\ UNCHANGED <<tablesV, locksV, th, res, histV, reloadV, countV>>

DeleteFileAnytime(path) ==
    /\ edits < MaxEdits
    /\ reloadPc = "idle"
    /\ path \in DOMAIN disk
    /\ disk' = [q \in (DOMAIN disk) \ {path} |-> disk[q]]
    /\ editedSince' = editedSince \cup {path}
    /\ edits' = edits + 1
    /\ UNCHANGED <<tablesV, locksV, th, res, histV, reloadV, countV>>

---------------------------------------------------------------------------

\* the steps of the calls thread t makes on the shared manager (&self)
CallerStep(t) ==
    \/ \E path \in Paths : StartGetModule(t, path)
    \/ GM_Read(t)
    \/ GM_Write(t)
    \/ Resolve(t)
    \/ Compile(t)
    \/ \E label \in Labels : StartGetRenderPipeline(t, label)
    \/ GP_Read(t)
    \/ GP_Write(t)
    \/ Link(t)
    \/ \E label \in Labels, template \in Templates :
          StartRegisterRenderPipeline(t, label, template)
    \/ RP_Read(t)
    \/ RP_Write(t)
    \/ \E path \in Paths, source \in ConstTexts :
          RegisterConstantSource(t, path, source)

ReloadStep == ReloadStart \/ ReloadModules \/ ReloadPipelines \/ ReloadEnd

EditStep ==
    \/ \E path \in Paths, text \in FileTexts : WriteFile(path, text)
    \/ \E path \in Paths : DeleteFile(path)

\* every thread calls, reload() runs between calls, files are edited
Next == (\E t \in Threads : CallerStep(t)) \/ ReloadStep \/ EditStep
Spec == Init /\ [][Next]_vars

\* one thread makes all the calls (the render loop of application/mod.rs),
\* with hot reload: files are edited and reload() is called
NextSeq == CallerStep("t1") \/ ReloadStep \/ EditStep
SpecSeq == Init /\ [][NextSeq]_vars

\* two threads share the manager; the files on disk stay as they are
NextConc == (\E t \in Threads : CallerStep(t)) \/ ReloadStep
SpecConc == Init /\ [][NextConc]_vars

\* the steps of get_source_new under get_module's write guard
ExpandStep(t) == GM_Write(t) \/ Resolve(t)
\* ExpandStep(t) can be taken: the guard is free, or the loop is running
ExpandEnabled(t) ==
    \/ th[t].pc = "gm_write" /\ writer["shader_modules"] = NoThread
    \/ th[t].pc = "resolve"

\* the other steps of the public calls made through &self:
\* get_render_pipeline, register_render_pipeline, register_constant_source
LockStep(t) ==
    \/ GM_Read(t)
    \/ Compile(t)
    \/ \E label \in Labels : StartGetRenderPipeline(t, label)
    \/ GP_Read(t)
    \/ GP_Write(t)
    \/ Link(t)
    \/ \E label \in Labels, template \in Templates :
          StartRegisterRenderPipeline(t, label, template)
    \/ RP_Read(t)
    \/ RP_Write(t)
    \/ \E path \in Paths, source \in ConstTexts :
          RegisterConstantSource(t, path, source)

\* two threads make the public calls.  A thread that can take a step is
\* scheduled: the backend's compile and link return and a free lock is
\* granted (weak fairness of each thread's steps; for ExpandStep it is
\* written out with ExpandEnabled as the enabling condition)
NextLock == \E t \in Threads : LockStep(t) \/ ExpandStep(t)
LockFairness ==
    \A t \in Threads :
        /\ WF_vars(LockStep(t))
        /\ []<>(~ExpandEnabled(t)) \/ []<><<ExpandStep(t)>>_vars
SpecLock == Init /\ [][NextLock]_vars /\ LockFairness

\* one thread expands and compiles the roots of a store, directly and as
\* the stages of a pipeline; the backend may reject a module
NextExpand ==
    \/ \E path \in ExpandRoots : StartGetModule("t1", path)
    \/ GM_Read("t1")
    \/ GM_Write("t1")
    \/ Resolve("t1")
    \/ Compile("t1")
    \/ CompileFails("t1")
    \/ \E label \in Labels : StartGetRenderPipeline("t1", label)
    \/ GP_Read("t1")
    \/ GP_Write("t1")
    \/ Link("t1")
    \/ \E label \in Labels, template \in ExpandTemplates :
          StartRegisterRenderPipeline("t1", label, template)
    \/ RP_Read("t1")
    \/ RP_Write("t1")
SpecExpand == InitExpand /\ [][NextExpand]_vars

\* the steps of get_file_from_disk made by thread t
DiskStep(t) ==
    \/ \E path \in Paths : StartGetFileFromDisk(t, path)
    \/ FD_Lookup(t)
    \/ FD_ReadToString(t)
    \/ FD_Insert(t)

\* two threads are in get_file_from_disk while files are written and deleted
\* and reload() is called between calls
NextDisk ==
    \/ \E t \in Threads : DiskStep(t)
    \/ ReloadStep
    \/ \E path \in Paths, text \in FileTexts : WriteFileAnytime(path, text)
    \/ \E path \in Paths : DeleteFileAnytime(path)
SpecDisk == Init /\ [][NextDisk]_vars

---------------------------------------------------------------------------
(* The read guard of get_render_pipeline's first match, step by step: it   *)
(* is taken by the scrutinee and lives until the match ends (348-360).     *)

\* the threads that hold a read guard of render_pipelines
ReadGuards == {t \in Threads : th[t].pc = "gp_held"}

\* a lock that admits one reader at a time
CanReadAlone(lock, t) == writer[lock] = NoThread /\ ReadGuards \ {t} = {}

\* RwLock::read returns when no write guard is alive, whoever reads
CanRead(lock, t) == writer[lock] = NoThread

\* RwLock::write returns when no guard at all is alive
CanWrite(lock) == writer[lock] = NoThread /\ ReadGuards = {}

\* line 348: self.render_pipelines.read().unwrap()
GP_ReadLock(t) ==
    /\ th[t].pc = "gp_read"
    /\ CanRead("render_pipelines", t)
    /\ IF Poisoned("render_pipelines")
       THEN Panic(t, th[t], "poisoned lock", {})
       ELSE /\ th' = [th EXCEPT ![t].pc = "gp_held"]
            /\ UNCHANGED <<res, locksV>>
    /\ UNCHANGED <<tablesV, histV, envV, reloadV, countV>>

\* lines 348-360: .get(label) and the arms of the match; the read guard is
\* dropped by the return, by the unwinding, or at the end of the match
GP_ReadMatch(t) ==
    /\ th[t].pc = "gp_held"
    /\ LET label == th[t].label
       IN IF label \notin DOMAIN render_pipelines
          THEN Panic(t, th[t], "label that wasn't registered", {})
          ELSE /\ UNCHANGED locksV
               /\ IF render_pipelines[label].pipeline # {}
                  THEN Finish(t, th[t], "ok", "", {}, render_pipelines[label].pipeline)
                  ELSE /\ th' = [th EXCEPT ![t].pc = "gp_write", ![t].missed = TRUE]
                       /\ UNCHANGED res
    /\ UNCHANGED <<tablesV, histV, envV, reloadV, countV>>

\* the module and the pipeline of label P once get_render_pipeline has built
\* them from A = TIncB and B = TPlain
ModuleOfA == [id |-> 1, path |-> PA, src |-> <<"b", NL, "y">>, root |-> TIncB]
PipelineOfP ==
    [id |-> 2, label |-> "P", fixed |-> TemplateV.fixed,
     vertex |-> {ModuleOfA}, fragment |-> {}]

\* a manager over a directory with A and B: as constructed, or after
\* register_render_pipeline("P", TemplateV) and a first get_render_pipeline("P")
InitHit ==
    /\ disk = Put(Put(EmptyMap, PA, TIncB), PB, TPlain)
    /\ constant_source_files = EmptyMap
    /\ \/ /\ source_files = EmptyMap
          /\ shader_modules = EmptyMap
          /\ render_pipelines = EmptyMap
          /\ nextHandle = 1
          /\ compiled = EmptyMap
          /\ linked = EmptyMap
       \/ /\ source_files = disk
          /\ shader_modules = Put(EmptyMap, PA, ModuleOfA)
          /\ render_pipelines =
                Put(EmptyMap, "P", [template |-> TemplateV, pipeline |-> {PipelineOfP}])
          /\ nextHandle = 3
          /\ compiled = Put(EmptyMap, PA, 1)
          /\ linked = Put(EmptyMap, "P", 1)
    /\ writer = [l \in LockNames |-> NoThread]
    /\ poisoned = {}
    /\ th = [t \in Threads |-> IdleThread]
    /\ res = [t \in Threads |-> NoResult]
    /\ reloadPc = "idle"
    /\ calls = 0
    /\ registrations = 0
    /\ reloads = 0
    /\ edits = 0
    /\ handleAtReload = 1
    /\ editedSince = {}

\* two threads call get_render_pipeline and register_render_pipeline; a
\* write guard of render_pipelines waits for the read guards to be dropped
HitStep(t) ==
    \/ \E label \in Labels : StartGetRenderPipeline(t, label)
    \/ GP_ReadLock(t)
    \/ GP_ReadMatch(t)
    \/ CanWrite("render_pipelines") /\ GP_Write(t)
    \/ GM_Read(t)
    \/ GM_Write(t)
    \/ Resolve(t)
    \/ Compile(t)
    \/ Link(t)
    \/ \E label \in Labels, template \in Templates :
          StartRegisterRenderPipeline(t, label, template)
    \/ RP_Read(t)
    \/ CanWrite("render_pipelines") /\ RP_Write(t)
NextHit == (\E t \in Threads : HitStep(t)) \/ ReloadStep
SpecHit == InitHit /\ [][NextHit]_vars

---------------------------------------------------------------------------
(* The ShaderManager of the root crate (src/src/shader_manager): one Mutex *)
(* per table, no source tables and no include expansion.  writer[l] is the *)
(* holder of the Mutex guard of table l.                                   *)

MX_StartGetModule(t, path) ==
    /\ CanStart(t)
    /\ th' = [th EXCEPT ![t] = [IdleThread EXCEPT !.pc = "mx_lock", !.op = "get_module",
                                                  !.path = path, !.stage = "direct",
                                                  !.onDisk = path \in DOMAIN disk]]
    /\ calls' = calls + 1
    /\ UNCHANGED <<res, locksV, tablesV, histV, envV, reloadV, registrations, reloads>>

\* line 64-65: self.shader_modules.lock().unwrap().entry(path); the guard
\* and the entry are alive while the argument of or_insert is evaluated
MX_Lock(t) ==
    /\ th[t].pc = "mx_lock"
    /\ writer["shader_modules"] = NoThread
    /\ IF Poisoned("shader_modules")
       THEN Panic(t, th[t], "poisoned lock", {})
       ELSE /\ writer' = [writer EXCEPT !["shader_modules"] = t]
            /\ th' = [th EXCEPT ![t].pc = "mx_read",
                                ![t].missed = th[t].path \notin DOMAIN shader_modules]
            /\ UNCHANGED <<res, poisoned>>
    /\ UNCHANGED <<tablesV, histV, envV, reloadV, countV>>

\* lines 49-50: read_to_string(directory_path + path).expect(...), the first
\* thing the argument of or_insert does, whatever the entry holds
MX_ReadFile(t) ==
    /\ th[t].pc = "mx_read"
    /\ LET path == th[t].path
           r == [th[t] EXCEPT !.probes = @ \cup {path}]
       IN IF path \in DOMAIN disk
          THEN /\ th' = [th EXCEPT ![t] = [r EXCEPT !.source = disk[path],
                                                    !.root = {disk[path]},
                                                    !.reads = @ \cup {path},
                                                    !.pc = "mx_compile"]]
               /\ UNCHANGED <<res, locksV>>
          ELSE Panic(t, r, "Could not read shader file", {path})
    /\ UNCHANGED <<tablesV, histV, envV, reloadV, countV>>

\* the module is handed to the caller of get_module, or to compile_pipeline
\* (lines 76-83): vertex module, fragment module if any, then the link
MX_ReturnModule(t, r, h) ==
    IF r.stage = "direct"
    THEN Finish(t, r, "ok", "", {}, {h})
    ELSE /\ UNCHANGED res
         /\ LET fragment_path == ModulePaths(render_pipelines[r.label].template)[2]
            IN th' = [th EXCEPT ![t] =
                 IF r.stage = "vertex" /\ fragment_path # {}
                 THEN [r EXCEPT !.vmod = {h}, !.path = TheOne(fragment_path),
                                !.stage = "fragment", !.pc = "mx_lock"]
                 ELSE IF r.stage = "vertex"
                 THEN [r EXCEPT !.vmod = {h}, !.pc = "mx_link"]
                 ELSE [r EXCEPT !.fmod = {h}, !.pc = "mx_link"]]

\* lines 51-54 and 68: create_shader_module on the file's text, then
\* or_insert: a vacant entry takes the new module, an occupied one keeps its
\* own and the new module is dropped; the guard is dropped with the statement
MX_Compile(t) ==
    /\ th[t].pc = "mx_compile"
    /\ LET path == th[t].path
           module == [id |-> nextHandle, path |-> path, src |-> th[t].source,
                      root |-> TheOne(th[t].root)]
           table == InsertModule(shader_modules, path, module)
           r == [th[t] EXCEPT !.compiles = @ + 1,
                              !.inserted = IF path \in DOMAIN shader_modules THEN @
                                           ELSE @ \cup {path}]
       IN /\ shader_modules' = table
          /\ nextHandle' = nextHandle + 1
          /\ compiled' = Put(compiled, path, Count(compiled, path) + 1)
          /\ writer' = DropGuard("shader_modules")
          /\ MX_ReturnModule(t, r, table[path])
    /\ UNCHANGED <<source_files, constant_source_files, render_pipelines, poisoned,
                   linked, envV, reloadV, countV>>

MX_StartGetRenderPipeline(t, label) ==
    /\ CanStart(t)
    /\ th' = [th EXCEPT ![t] = [IdleThread EXCEPT !.pc = "mx_gp_lock",
                                                  !.op = "get_render_pipeline",
                                                  !.label = label]]
    /\ calls' = calls + 1
    /\ UNCHANGED <<res, locksV, tablesV, histV, envV, reloadV, registrations, reloads>>

\* lines 87-101: render_pipelines.lock().unwrap().get_mut(label).expect(...)
\* and get_or_insert_with: a pipeline that is there is returned, otherwise
\* compile_pipeline runs under the guard
MX_GP_Lock(t) ==
    /\ th[t].pc = "mx_gp_lock"
    /\ writer["render_pipelines"] = NoThread
    /\ LET label == th[t].label
       IN IF Poisoned("render_pipelines")
          THEN Panic(t, th[t], "poisoned lock", {})
          ELSE IF label \notin DOMAIN render_pipelines
          THEN /\ Finish(t, th[t], "panic", "label that wasn't registered", {}, {})
               /\ poisoned' = poisoned \cup {"render_pipelines"}
               /\ UNCHANGED writer
          ELSE IF NeedsLink(render_pipelines[label].pipeline)
          THEN /\ writer' = [writer EXCEPT !["render_pipelines"] = t]
               /\ th' = [th EXCEPT ![t].pc = "mx_lock", ![t].stage = "vertex",
                                   ![t].missed = TRUE,
                                   ![t].path = ModulePaths(render_pipelines[label].template)[1]]
               /\ UNCHANGED <<res, poisoned>>
          ELSE /\ Finish(t, th[t], "ok", "", {}, render_pipelines[label].pipeline)
               /\ UNCHANGED locksV
    /\ UNCHANGED <<tablesV, histV, envV, reloadV, countV>>

\* lines 81-83 and 100-101: create_render_pipeline, the pipeline stored in
\* the label's entry, the guard dropped
MX_Link(t) ==
    /\ th[t].pc = "mx_link"
    /\ LET label == th[t].label
           pipeline == [id |-> nextHandle, label |-> label,
                        fixed |-> render_pipelines[label].template.fixed,
                        vertex |-> th[t].vmod, fragment |-> th[t].fmod]
       IN /\ render_pipelines' = [render_pipelines EXCEPT ![label].pipeline = {pipeline}]
          /\ nextHandle' = nextHandle + 1
          /\ linked' = Put(linked, label, Count(linked, label) + 1)
          /\ writer' = DropGuard("render_pipelines")
          /\ Finish(t, [th[t] EXCEPT !.links = @ + 1], "ok", "", {}, {pipeline})
    /\ UNCHANGED <<source_files, constant_source_files, shader_modules, poisoned,
                   compiled, envV, reloadV, countV>>

\* lines 109-121: register_render_pipeline of the root crate: an occupied
\* entry is left alone whatever the template, a vacant one is filled
MX_RegisterRenderPipeline(t, label, template) ==
    /\ CanRegister(t)
    /\ writer["render_pipelines"] = NoThread
    /\ registrations' = registrations + 1
    /\ LET r == [IdleThread EXCEPT !.op = "register_render_pipeline", !.label = label,
                                   !.template = {template},
                                   !.missed = label \notin DOMAIN render_pipelines]
       IN IF Poisoned("render_pipelines")
          THEN /\ Finish(t, r, "panic", "poisoned lock", {}, {})
               /\ UNCHANGED render_pipelines
          ELSE /\ render_pipelines' = InsertTemplate(render_pipelines, label, template)
               /\ Finish(t, r, "ok", "", {}, {})
    /\ UNCHANGED <<source_files, constant_source_files, shader_modules, locksV, histV,
                   envV, reloadV, calls, reloads>>

\* lines 123-128: reload(&mut self) runs with no call in progress: the
\* modules are cleared, then every pipeline is set to None; lock().unwrap()
\* panics on a poisoned Mutex
MX_Reload ==
    /\ Quiescent
    /\ reloads < MaxReloads
    /\ reloads' = reloads + 1
    /\ handleAtReload' = nextHandle
    /\ editedSince' = {}
    /\ res' = [t \in Threads |-> [res[t] EXCEPT !.stale = res[t].status # "none"]]
    /\ IF Poisoned("shader_modules")
       THEN UNCHANGED <<shader_modules, compiled, render_pipelines, linked>>
       ELSE /\ shader_modules' = ClearedModules(shader_modules)
            /\ compiled' = EmptyMap
            /\ IF Poisoned("render_pipelines")
               THEN UNCHANGED <<render_pipelines, linked>>
               ELSE /\ render_pipelines' = [l \in DOMAIN render_pipelines |->
                                               ResetPipeline(render_pipelines[l])]
                    /\ linked' = EmptyMap
    /\ UNCHANGED <<source_files, constant_source_files, locksV, th, nextHandle,
                   disk, edits, reloadPc, calls, registrations>>

\* the calls of one thread on the Mutex-based manager
MX_CallerStep(t) ==
    \/ \E path \in Paths : MX_StartGetModule(t, path)
    \/ MX_Lock(t)
    \/ MX_ReadFile(t)
    \/ MX_Compile(t)
    \/ \E label \in Labels : MX_StartGetRenderPipeline(t, label)
    \/ MX_GP_Lock(t)
    \/ MX_Link(t)

\* one thread makes the calls; reload() runs and files are edited between them
NextMutex ==
    \/ MX_CallerStep("t1")
    \/ \E label \in Labels, template \in Templates :
          MX_RegisterRenderPipeline("t1", label, template)
    \/ MX_Reload
    \/ EditStep
SpecMutex == Init /\ [][NextMutex]_vars

---------------------------------------------------------------------------
(* The earlier revision of the registry (src/src/wgpu_context, mod         *)
(* shader_manager): the same manager, but register_render_pipeline         *)
(* compares the template of an occupied entry.                             *)

\* a comparison that takes any two templates for equal
AnyTemplate(stored, template) == TRUE

\* line 550: x.get().0 == template, the derived PartialEq of the template
SameTemplate(stored, template) == stored = template

\* lines 544-556: an occupied entry with an equal template is left alone, one
\* with a different template panics (the guard of render_pipelines is
\* alive), a vacant entry is filled
MXE_RegisterRenderPipeline(t, label, template) ==
    /\ CanRegister(t)
    /\ writer["render_pipelines"] = NoThread
    /\ registrations' = registrations + 1
    /\ LET r == [IdleThread EXCEPT !.op = "register_render_pipeline", !.label = label,
                                   !.template = {template},
                                   !.missed = label \notin DOMAIN render_pipelines]
       IN IF Poisoned("render_pipelines")
          THEN /\ Finish(t, r, "panic", "poisoned lock", {}, {})
               /\ UNCHANGED <<render_pipelines, poisoned>>
          ELSE IF label \in DOMAIN render_pipelines
                  /\ ~SameTemplate(render_pipelines[label].template, template)
          THEN /\ Finish(t, r, "panic", "already registered with different template",
                         {}, {})
               /\ poisoned' = poisoned \cup {"render_pipelines"}
               /\ UNCHANGED render_pipelines
          ELSE /\ render_pipelines' = InsertTemplate(render_pipelines, label, template)
               /\ Finish(t, r, "ok", "", {}, {})
               /\ UNCHANGED poisoned
    /\ UNCHANGED <<source_files, constant_source_files, shader_modules, writer, histV,
                   envV, reloadV, calls, reloads>>

\* two threads call the earlier revision; reload() runs between calls
NextEarlier ==
    \/ \E t \in Threads : MX_CallerStep(t)
    \/ \E t \in Threads, label \in Labels, template \in Templates :
          MXE_RegisterRenderPipeline(t, label, template)
    \/ MX_Reload
SpecEarlier == Init /\ [][NextEarlier]_vars

---------------------------------------------------------------------------
(* Properties *)

GetModuleResults == {t \in Threads : res[t].op = "get_module"}
GetPipelineResults == {t \in Threads : res[t].op = "get_render_pipeline"}

\* C1 -- sequential cache coherency: when a caller's get_module(path) returns
\* and its previous call was get_module(path) too, with no reload() begun in
\* between, the second call returns the handle the first returned and compiles
\* nothing (it is served under the read guard), and the compiler ran exactly
\* once across both when the first found no module cached (never more).
C1_SequentialCoherency ==
    \A t \in GetModuleResults :
        LET r == res[t]
        IN (r.status = "ok" /\ r.repeat /\ ~r.prevStale)
           => /\ r.handle = r.prevHandle
              /\ r.compiles = 0
              /\ ~r.missed
              /\ r.prevCompiles + r.compiles = (IF r.prevMissed THEN 1 ELSE 0)

C1_Witness ==
    \E t \in GetModuleResults :
        LET r == res[t]
        IN /\ r.status = "ok" /\ r.repeat /\ ~r.prevStale
           /\ r.prevMissed /\ r.prevCompiles = 1 /\ r.compiles = 0
           /\ r.handle # {} /\ r.handle = r.prevHandle

C3_AtMostOnceLink ==
    /\ \A label \in Labels : Count(linked, label) <= 1
    /\ \A t \in GetPipelineResults :
          LET r == res[t]
          IN (r.status = "ok" /\ ~r.stale)
             => /\ r.handle # {}
                /\ r.label \in DOMAIN render_pipelines
                /\ render_pipelines[r.label].pipeline = r.handle

\* two callers missed on the label under the read guard; one linked
C3_Witness ==
    /\ \A t \in Threads :
          /\ t \in GetPipelineResults
          /\ res[t].status = "ok" /\ ~res[t].stale /\ res[t].missed
          /\ res[t].label = "P"
    /\ res["t1"].handle = res["t2"].handle
    /\ \E t \in Threads : res[t].links = 0
    /\ linked["P"] = 1

\* the failures get_source_new reports for the sources it is given
ResolutionErrors ==
    {"available on disk and in constant shaders",
     "not found on disk or in constant shaders",
     "include path already seen"}

\* C4 -- include splice at any line position: a get_module whose root text
\* has a directive line naming another path, that path having one source
\* without directives, returns, and its expanded source is the text before the
\* first directive line, then the included text in place of exactly that
\* line, then the text after the line; a directive on a later line
\* (A = "x\n#include <B>\ny") does not fail.
C4_SpliceAtAnyLine ==
    \A t \in GetModuleResults :
        LET r == res[t]
        IN (/\ r.root # {}
            /\ find_next_include(TheOne(r.root)) # {}
            /\ LET include == TheOne(find_next_include(TheOne(r.root))).include
                   sources == Get(disk, include) \cup Get(constant_source_files, include)
               IN /\ include # r.path
                  /\ include \notin DOMAIN disk \/ include \notin DOMAIN constant_source_files
                  /\ Cardinality(sources) = 1
                  /\ find_next_include(TheOne(sources)) = {}
            /\ r.err \notin ResolutionErrors \cup {"poisoned lock"})
           => /\ r.status = "ok"
              /\ LET root == TheOne(r.root)
                     line == TheOne(find_next_include(root)).line
                 IN \E middle \in ConstTexts \cup FileTexts :
                       TheOne(r.handle).src =
                           Take(root, line.start) \o middle
                               \o Skip(root, line.start + line.len)

\* the sources are in order: A includes B on its first line and B has one
\* source, without directives
SourcesFixed ==
    /\ Get(disk, PA) = {TIncB} /\ PA \notin DOMAIN constant_source_files
    /\ Get(disk, PB) \cup Get(constant_source_files, PB) \in {{TPlain}, {TOther}}
    /\ ~(PB \in DOMAIN disk /\ PB \in DOMAIN constant_source_files)

\* C5 -- recovery after a fatal failure: when the last get_render_pipeline
\* failed in source resolution and the sources have been fixed, reload()
\* does not fail.
C5_Recovery ==
    (/\ \E t \in GetPipelineResults :
            res[t].status = "panic" /\ res[t].err \in ResolutionErrors
     /\ SourcesFixed)
    => reloadPc # "panicked"

\* C6 -- reload invalidation for disk-backed paths: a get_module(path) that
\* returned after the last reload() began, for a path on disk whose file was
\* not edited since, returns a module compiled after that reload() from the
\* text the file holds now, and compiles once if it found no module cached.
C6_ReloadInvalidation ==
    \A t \in GetModuleResults :
        LET r == res[t]
        IN (/\ r.status = "ok" /\ ~r.stale /\ reloads >= 1
            /\ r.path \in DOMAIN disk /\ r.path \notin editedSince)
           => /\ TheOne(r.handle).root = disk[r.path]
              /\ TheOne(r.handle).id >= handleAtReload
              /\ r.missed => r.compiles = 1

\* the file was changed between a get_module and the reload(); the
\* get_module after the reload() read it again and compiled the new text
C6_Witness ==
    \E t \in GetModuleResults :
        LET r == res[t]
        IN /\ r.status = "ok" /\ ~r.stale /\ reloads >= 1
           /\ r.path \in DOMAIN disk /\ r.path \notin editedSince
           /\ r.repeat /\ r.prevStale
           /\ TheOne(r.prevHandle).root # TheOne(r.handle).root
           /\ r.path \in r.reads /\ r.compiles = 1

\* C7 -- embedded-only resolution does no I/O: a get_module(path) after a
\* reload(), for a path that has a constant source and no file, that finds no
\* module cached touches no file at all.
C7_NoFilesystemAccess ==
    \A t \in GetModuleResults :
        LET r == res[t]
        IN (/\ r.status = "ok" /\ ~r.stale /\ reloads >= 1
            /\ r.embedded /\ ~r.onDisk /\ r.missed)
           => r.probes = {}

\* C7, as the code has it -- a get_module(path) for a path that has a constant
\* source and no file, that finds no module cached (as after a reload()),
\* resolves the text registered for the path and reads no file content for
\* it; its one access to the file system for the path is the read_to_string
\* that finds no file.
C7_EmbeddedOnlyProbesDisk ==
    \A t \in GetModuleResults :
        LET r == res[t]
        IN (r.status = "ok" /\ r.embedded /\ ~r.onDisk /\ r.missed)
           => /\ TheOne(r.handle).root = constant_source_files[r.path]
              /\ r.path \notin r.reads
              /\ r.path \in r.probes

\* the same embedded-only path asked for before and after a reload()
C7_Witness ==
    \E t \in GetModuleResults :
        LET r == res[t]
        IN /\ r.status = "ok" /\ r.embedded /\ ~r.onDisk /\ r.missed
           /\ ~r.stale /\ r.repeat /\ r.prevStale
           /\ TheOne(r.handle).root = TheOne(r.prevHandle).root
           /\ r.probes = {r.path} /\ r.reads = {}

\* C8 -- template persistence across reload: a get_render_pipeline(label)
\* fails as unknown only for a label that is not registered; the call after
\* a reload(), for a label whose pipeline was returned before it, does not
\* fail as unknown and, when it returns, has linked once and returns a
\* pipeline distinct from the one before.
C8_TemplatePersistence ==
    \A t \in GetPipelineResults :
        LET r == res[t]
        IN /\ r.err = "label that wasn't registered"
                => r.label \notin DOMAIN render_pipelines
           /\ (r.repeat /\ r.prevStale /\ ~r.stale)
                => /\ r.err # "label that wasn't registered"
                   /\ r.status = "ok"
                        => /\ r.links = 1
                           /\ r.handle # {}
                           /\ r.handle # r.prevHandle

C8_Witness ==
    \E t \in GetPipelineResults :
        LET r == res[t]
        IN /\ r.repeat /\ r.prevStale /\ ~r.stale /\ r.status = "ok"
           /\ r.links = 1 /\ r.prevHandle # {} /\ r.handle # r.prevHandle

\* the (label, template) pairs registered
RegisteredTemplates(table) == {<<l, table[l].template>> : l \in DOMAIN table}

\* C9 -- effect and frame of reload(): when reload() has returned,
\* source_files and shader_modules are empty and no label has a pipeline;
\* no step of reload() changes constant_source_files or the registered
\* (label, template) pairs.
C9_ReloadEffectAndFrame ==
    /\ [](reloadPc = "returned"
            => /\ source_files = EmptyMap
               /\ shader_modules = EmptyMap
               /\ \A l \in DOMAIN render_pipelines : render_pipelines[l].pipeline = {})
    /\ [][reloadPc' \in {"modules", "pipelines", "returned"}
            => /\ constant_source_files' = constant_source_files
               /\ RegisteredTemplates(render_pipelines')
                     = RegisteredTemplates(render_pipelines)]_vars

\* reload() has returned on a manager that held a constant source, a
\* template, a module and a pipeline
C9_Witness ==
    /\ reloadPc = "returned"
    /\ constant_source_files # EmptyMap
    /\ render_pipelines # EmptyMap
    /\ handleAtReload >= 3

\* C10 -- ambiguity detection: whenever get_module(path) is called with a
\* file at path and a constant source registered at path, it fails with the
\* ambiguous-fragment error.
C10_AmbiguityAlwaysDetected ==
    \A t \in GetModuleResults :
        LET r == res[t]
        IN (r.onDisk /\ r.embedded /\ r.err # "poisoned lock")
           => /\ r.status = "panic"
              /\ r.err = "available on disk and in constant shaders"

\* C10, as the code has it -- a get_module(path) called with a file at path
\* and a constant source registered at path, that finds no module cached for
\* path, fails with the ambiguous-fragment error; so does a get_module whose
\* expansion looks up a path that has both; neither compiles nor caches a
\* module.
C10_AmbiguityDetectedOnMiss ==
    \A t \in GetModuleResults :
        LET r == res[t]
        IN ((/\ r.err # "poisoned lock"
             /\ \/ r.onDisk /\ r.embedded /\ r.missed
                \/ r.disk_source_file # {} /\ r.const_source_file # {}))
           => /\ r.status = "panic"
              /\ r.err = "available on disk and in constant shaders"
              /\ r.compiles = 0
              /\ r.inserted = {}

\* the ambiguous path was the root, or was included
C10_Witness ==
    /\ \E t \in GetModuleResults :
          LET r == res[t]
          IN /\ r.err = "available on disk and in constant shaders"
             /\ r.disk_source_file # {} /\ r.const_source_file # {}
             /\ r.target # r.path
             /\ r.path \notin DOMAIN shader_modules

\* C11 -- table disjointness: in every reachable state no path is a key of
\* both source_files and constant_source_files.
C11_TablesDisjoint ==
    DOMAIN source_files \cap DOMAIN constant_source_files = {}

\* C12 -- cycle detection: a get_module(path) whose root text includes path
\* itself fails with the duplicate-include error ("include path already
\* seen") and returns no text.
C12_CycleDetected ==
    \A t \in GetModuleResults :
        LET r == res[t]
        IN (/\ r.root # {}
            /\ find_next_include(TheOne(r.root)) # {}
            /\ TheOne(find_next_include(TheOne(r.root))).include = r.path
            /\ r.path \notin DOMAIN constant_source_files
            /\ r.err # "poisoned lock")
           => /\ r.status = "panic"
              /\ r.err = "include path already seen"

\* C13 -- unknown label: a get_render_pipeline(label) that finds no entry for
\* label under the read guard fails there with the unknown-label error; it
\* has compiled, linked and read nothing, and its step changes none of the
\* four tables and poisons no lock.
C13_UnknownLabel ==
    /\ [](\A t \in GetPipelineResults :
            res[t].err = "label that wasn't registered"
            => /\ res[t].status = "panic"
               /\ res[t].compiles = 0 /\ res[t].links = 0
               /\ res[t].probes = {} /\ res[t].reads = {}
               /\ ~res[t].missed /\ res[t].inserted = {})
    /\ [][\A t \in Threads :
            (/\ th[t].pc = "gp_read" /\ th'[t] # th[t]
             /\ th[t].label \notin DOMAIN render_pipelines
             /\ ~Poisoned("render_pipelines"))
            => /\ th'[t].pc = "idle"
               /\ res'[t].op = "get_render_pipeline"
               /\ res'[t].err = "label that wasn't registered"
               /\ <<tablesV, locksV, histV, disk>>' = <<tablesV, locksV, histV, disk>>]_vars

\* the call has failed as unknown and every lock is usable
C13_Witness ==
    \E t \in GetPipelineResults :
        /\ res[t].err = "label that wasn't registered"
        /\ res[t].label \notin DOMAIN render_pipelines
        /\ poisoned = {}
        /\ constant_source_files # EmptyMap

\* the end-to-end scenario: the disk is as constructed (A's first line
\* includes B, B is not on disk), B is registered as a constant source, P is
\* registered with vertex path A, and no lock is poisoned
Scenario14 ==
    /\ edits = 0 /\ disk = Put(EmptyMap, PA, TIncB)
    /\ DOMAIN constant_source_files = {PB}
    /\ "P" \in DOMAIN render_pipelines
    /\ render_pipelines["P"].template.vertex = PA
    /\ poisoned = {}

\* C14 -- end-to-end scenario: in the scenario every get_render_pipeline(P)
\* returns a pipeline whose vertex module was compiled from A's text with
\* the directive line replaced by B's text; a call that follows a successful
\* call with no reload in between returns the identical handle with no
\* compile and no link; a call that follows a successful call and a reload
\* returns a new handle, linked once.
C14_EndToEnd ==
    [][\A t \in Threads :
        (/\ th[t].op = "get_render_pipeline" /\ th[t].label = "P"
         /\ th[t].pc # "idle" /\ th'[t].pc = "idle"
         /\ Scenario14)
        => LET r == res'[t]
           IN /\ r.status = "ok"
              /\ r.handle # {}
              /\ r.handle = render_pipelines'["P"].pipeline
              /\ TheOne(TheOne(r.handle).vertex).path = PA
              /\ TheOne(TheOne(r.handle).vertex).src
                    = constant_source_files[PB] \o <<NL, "y">>
              /\ (r.repeat /\ ~r.prevStale)
                    => /\ r.handle = r.prevHandle
                       /\ r.compiles = 0 /\ r.links = 0
              /\ (r.repeat /\ r.prevStale)
                    => /\ r.handle # r.prevHandle
                       /\ r.links = 1]_vars

\* the third call of the scenario has returned: after a successful call and
\* a reload, a new handle over the expanded text
C14_Witness ==
    \E t \in GetPipelineResults :
        LET r == res[t]
        IN /\ Scenario14 /\ r.label = "P" /\ r.status = "ok"
           /\ r.repeat /\ r.prevStale /\ r.prevHandle # {}
           /\ r.handle # r.prevHandle
           /\ TheOne(TheOne(r.handle).vertex).src = constant_source_files[PB] \o <<NL, "y">>

\* C15 -- register_constant_source(path, source), once it holds the write
\* guard: with no source at path it stores source there; with the identical
\* source at path it changes nothing; with a different source at path it
\* fails with the conflicting-source error and the registered source stays.
\* In every case the entries of the other paths are unchanged.
C15_RegisterConstantSource ==
    [][\A t \in Threads, path \in Paths, source \in ConstTexts :
        (RegisterConstantSource(t, path, source)
         /\ ~Poisoned("constant_source_files"))
        => LET old == constant_source_files
               new == constant_source_files'
               r == res'[t]
           IN /\ \A q \in DOMAIN old : q \in DOMAIN new /\ new[q] = old[q]
              /\ DOMAIN new \subseteq DOMAIN old \cup {path}
              /\ r.op = "register_constant_source" /\ r.path = path
              /\ path \notin DOMAIN old
                    => r.status = "ok" /\ Get(new, path) = {source}
              /\ Get(old, path) = {source}
                    => r.status = "ok" /\ new = old
              /\ (path \in DOMAIN old /\ old[path] # source)
                    => /\ r.status = "panic"
                       /\ r.err = "conflicting source files"
                       /\ new = old]_vars

\* a registration of a different source at a registered path has failed and
\* the path still holds a source
C15_Witness ==
    \E t \in Threads :
        /\ res[t].op = "register_constant_source"
        /\ res[t].err = "conflicting source files"
        /\ res[t].path \in DOMAIN constant_source_files
        /\ "constant_source_files" \in poisoned

C17_NoWriteGuardWhileCompiling ==
    \A t \in Threads :
        th[t].pc \in {"compile", "link"}
            => \A l \in LockNames : writer[l] # t

\* C18 -- reload order: reload clears source_files, then shader_modules, then
\* every label's pipeline, each step leaving the later tables as they were;
\* at each intermediate point the earlier tables are empty, and once a
\* reload has gone through, every cached module was compiled after it began.
C18_ReloadOrder ==
    /\ [](/\ reloadPc \in {"modules", "pipelines", "returned"}
                => source_files = EmptyMap
          /\ reloadPc \in {"pipelines", "returned"}
                => shader_modules = EmptyMap
          /\ reloadPc = "returned"
                => \A l \in DOMAIN render_pipelines : render_pipelines[l].pipeline = {}
          /\ (/\ reloadPc # "modules"
              /\ ~Poisoned("source_files") /\ ~Poisoned("shader_modules"))
                => \A p \in DOMAIN shader_modules :
                       shader_modules[p].id >= handleAtReload)
    /\ [][/\ (reloadPc = "idle" /\ reloadPc' = "modules")
                => /\ shader_modules' = shader_modules
                   /\ render_pipelines' = render_pipelines
          /\ (reloadPc = "modules" /\ reloadPc' = "pipelines")
                => /\ source_files' = source_files
                   /\ render_pipelines' = render_pipelines
          /\ (reloadPc = "pipelines" /\ reloadPc' = "returned")
                => /\ source_files' = source_files
                   /\ shader_modules' = shader_modules
                   /\ RegisteredTemplates(render_pipelines')
                        = RegisteredTemplates(render_pipelines)
          /\ reloadPc' # reloadPc
                => /\ constant_source_files' = constant_source_files
                   /\ <<reloadPc, reloadPc'>> \in
                        {<<"idle", "modules">>, <<"modules", "pipelines">>,
                         <<"pipelines", "returned">>, <<"returned", "idle">>,
                         <<"idle", "panicked">>, <<"modules", "panicked">>,
                         <<"pipelines", "panicked">>, <<"panicked", "idle">>}]_vars

\* reload is between its second and third step: sources and modules are
\* cleared and a pipeline linked before the reload is still in its entry
C18_Witness ==
    /\ reloadPc = "pipelines"
    /\ source_files = EmptyMap /\ shader_modules = EmptyMap
    /\ \E l \in DOMAIN render_pipelines :
          /\ render_pipelines[l].pipeline # {}
          /\ TheOne(render_pipelines[l].pipeline).vertex # {}
          /\ TheOne(render_pipelines[l].pipeline).id < handleAtReload

\* C19 -- mutual exclusion of reload: while reload is between its first step
\* and its return no get_module, get_render_pipeline or registration is in
\* flight; a step of such a call is never taken during reload, and a step
\* of reload is never taken during such a call.
C19_ReloadExclusive ==
    /\ [](reloadPc # "idle" => \A t \in Threads : th[t].pc = "idle")
    /\ [][/\ th' # th => reloadPc = "idle" /\ reloadPc' = "idle"
          /\ reloadPc' # reloadPc
                => \A t \in Threads : th[t].pc = "idle" /\ th'[t] = th[t]]_vars

\* reload is between clearing the sources and clearing the modules; a call
\* that compiled a module ran entirely before it
C19_Witness ==
    /\ reloadPc = "modules"
    /\ shader_modules # EmptyMap
    /\ \E t \in Threads :
          /\ res[t].status = "ok" /\ res[t].stale /\ res[t].compiles > 0
          /\ th[t].pc = "idle"

\* the entries of old are entries of new, unchanged
Extends(new, old) == \A k \in DOMAIN old : k \in DOMAIN new /\ new[k] = old[k]

\* C20 -- handle stability under shared access: a step of get_module,
\* get_render_pipeline or a registration removes or replaces no entry of
\* source_files, constant_source_files or shader_modules and no linked
\* pipeline of a label; hence, until the next reload, the handle a call
\* returned for a key is the one cached for that key, and two callers get
\* the same handle for the same key, racing or not.
C20_HandleStability ==
    /\ [][(reloadPc = "idle" /\ reloadPc' = "idle")
            => /\ Extends(source_files', source_files)
               /\ Extends(constant_source_files', constant_source_files)
               /\ Extends(shader_modules', shader_modules)
               /\ \A l \in DOMAIN render_pipelines :
                     /\ l \in DOMAIN render_pipelines'
                     /\ render_pipelines'[l].template = render_pipelines[l].template
                     /\ render_pipelines[l].pipeline # {}
                          => render_pipelines'[l].pipeline = render_pipelines[l].pipeline]_vars
    /\ [](/\ \A t \in GetModuleResults :
                (res[t].status = "ok" /\ ~res[t].stale)
                    => res[t].handle = Get(shader_modules, res[t].path)
          /\ \A t \in GetPipelineResults :
                (res[t].status = "ok" /\ ~res[t].stale)
                    => res[t].handle = render_pipelines[res[t].label].pipeline
          /\ \A t, u \in Threads :
                (/\ res[t].status = "ok" /\ ~res[t].stale
                 /\ res[u].status = "ok" /\ ~res[u].stale
                 /\ res[t].op = res[u].op
                 /\ res[t].op \in {"get_module", "get_render_pipeline"}
                 /\ res[t].label = res[u].label
                 /\ res[t].op = "get_module" => res[t].path = res[u].path)
                    => res[t].handle = res[u].handle)

\* two callers raced on the same uncached path: both compiled, and both
\* returned the one module the cache holds
C20_Witness ==
    /\ \A t \in Threads :
          /\ res[t].op = "get_module" /\ res[t].status = "ok" /\ ~res[t].stale
          /\ res[t].compiles = 1
    /\ res["t1"].path = res["t2"].path
    /\ res["t1"].handle = res["t2"].handle
    /\ res["t1"].handle = Get(shader_modules, res["t1"].path)

\* the write guards thread t holds
Held(t) == {l \in LockNames : writer[l] = t}

\* C21 -- deadlock freedom: a caller takes the guard of render_pipelines
\* holding no guard, that of shader_modules holding at most that of
\* render_pipelines, and touches source_files only under those; it never
\* takes a guard it holds and holds none when its call has ended; and every
\* call that has started returns or fails.
C21_DeadlockFreedom ==
    /\ [](\A t \in Threads :
            /\ th[t].pc = "idle" => Held(t) = {}
            /\ Held(t) \subseteq {"render_pipelines", "shader_modules"}
            /\ "render_pipelines" \in Held(t) => th[t].op = "get_render_pipeline"
            /\ ("shader_modules" \in Held(t) /\ th[t].op = "get_render_pipeline")
                  => "render_pipelines" \in Held(t)
            /\ th[t].pc \in {"gm_read", "gm_write"} => "shader_modules" \notin Held(t)
            /\ th[t].pc \in {"gp_read", "gp_write", "rp_read", "rp_write"}
                  => Held(t) = {})
    /\ [][\A t \in Threads :
            /\ (writer'["render_pipelines"] = t /\ writer["render_pipelines"] # t)
                  => Held(t) = {} /\ writer["render_pipelines"] = NoThread
            /\ (writer'["shader_modules"] = t /\ writer["shader_modules"] # t)
                  => /\ Held(t) \subseteq {"render_pipelines"}
                     /\ writer["shader_modules"] = NoThread
            /\ (th'[t] # th[t] /\ source_files' # source_files)
                  => /\ th[t].pc \in {"gm_write", "resolve"}
                     /\ th[t].pc = "resolve" => "shader_modules" \in Held(t)
                     /\ th[t].op = "get_render_pipeline"
                          => "render_pipelines" \in Held(t)]_vars
    /\ \A t \in Threads : (th[t].pc # "idle") ~> (th[t].pc = "idle")

\* a caller links holding the guard of render_pipelines alone, after both
\* stages' modules were obtained, while the other caller waits for that guard
C21_Witness ==
    \E t, u \in Threads :
        /\ th[t].pc = "link" /\ Held(t) = {"render_pipelines"}
        /\ th[t].vmod # {} /\ th[t].fmod # {}
        /\ th[u].pc \in {"gp_read", "gp_write"}

\* what the two lookups of a path yield: the cached or on-disk text (a file
\* that is not found yields none), and the registered constant source
DiskLookup(path) ==
    IF path \in DOMAIN source_files THEN {source_files[path]} ELSE Get(disk, path)
ConstantLookup(path) == Get(constant_source_files, path)

\* C22 -- resolution of one fragment (the root of a get_module, or an
\* include): when exactly one of the two lookups yields a text, that text is
\* taken (a file not found on disk is no error when a constant source is
\* registered); when both yield one the call fails as ambiguous, when none
\* does it fails as missing.
C22_ResolveFragment ==
    [][\A t \in Threads :
        (/\ th[t].pc \in {"gm_write", "resolve"} /\ th'[t] # th[t]
         /\ poisoned = {})
        => LET isRoot == th[t].pc = "gm_write"
               path == IF isRoot THEN th[t].path ELSE th[t].target
               D == DiskLookup(path)
               E == ConstantLookup(path)
               ended == th'[t].pc = "idle"
               after == IF ended THEN res'[t] ELSE th'[t]
               failed == ended /\ res'[t].status = "panic"
               lookupErrors == {"available on disk and in constant shaders",
                                "not found on disk or in constant shaders"}
           IN /\ (D # {} /\ E # {})
                    => failed /\ res'[t].err = "available on disk and in constant shaders"
              /\ (D = {} /\ E = {})
                    => failed /\ res'[t].err = "not found on disk or in constant shaders"
              /\ Cardinality(D \cup E) = 1 /\ (D = {} \/ E = {})
                    => /\ ~(failed /\ res'[t].err \in lookupErrors)
                       /\ after.disk_source_file = D
                       /\ after.const_source_file = E
                       /\ isRoot => after.root = D \cup E
                       /\ (~isRoot /\ ~ended)
                            => th'[t].source =
                                  Take(th[t].source, th[t].line.start)
                                     \o TheOne(D \cup E)
                                     \o Skip(th[t].source,
                                             th[t].line.start + th[t].line.len)]_vars

\* a get_module of a path that is registered as a constant source and has no
\* file has returned its module: the probe of the disk found nothing and
\* the constant source was compiled
C22_Witness ==
    \E t \in GetModuleResults :
        LET r == res[t]
        IN /\ r.status = "ok" /\ r.compiles = 1
           /\ r.disk_source_file = {} /\ r.const_source_file # {}
           /\ r.probes # {} /\ r.reads = {}
           /\ TheOne(r.handle).src = TheOne(r.const_source_file)
           /\ r.path \notin DOMAIN disk

GetFileResults == {t \in Threads : res[t].op = "get_file_from_disk"}

\* C23 -- get_file_from_disk(path): a cached path returns the cached text
\* and reads nothing; an uncached path is read from disk; a text read is
\* inserted only if the path is still absent and the text in the table is
\* returned; a file not found returns none and caches nothing; any other
\* read error is a panic.  No other path's entry changes.
C23_GetFileFromDisk ==
    [][\A t \in Threads :
        (th[t].op = "get_file_from_disk" /\ th'[t] # th[t] /\ th[t].pc # "idle"
         /\ ~Poisoned("source_files"))
        => LET path == th[t].path
               old == source_files
               new == source_files'
               ended == th'[t].pc = "idle"
               r == res'[t]
           IN /\ \A q \in DOMAIN old : q \in DOMAIN new /\ new[q] = old[q]
              /\ DOMAIN new \subseteq DOMAIN old \cup {path}
              /\ th[t].pc = "fd_lookup"
                    => /\ new = old
                       /\ path \in DOMAIN old
                            => /\ ended /\ r.status = "ok"
                               /\ r.handle = {old[path]}
                               /\ r.reads = {} /\ r.probes = {}
                       /\ path \notin DOMAIN old => th'[t].pc = "fd_read"
              /\ th[t].pc = "fd_read"
                    => /\ new = old
                       /\ ~ended => /\ path \in DOMAIN disk
                                    /\ th'[t].pc = "fd_insert"
                                    /\ th'[t].source = disk[path]
                       /\ (ended /\ r.status = "ok")
                            => /\ path \notin DOMAIN disk
                               /\ r.handle = {} /\ r.inserted = {}
                       /\ (ended /\ r.status = "panic")
                            => r.err = "error while attempting to read file"
              /\ th[t].pc = "fd_insert"
                    => /\ ended /\ r.status = "ok"
                       /\ path \in DOMAIN old => new = old
                       /\ path \notin DOMAIN old => Get(new, path) = {th[t].source}
                       /\ r.handle = Get(new, path)]_vars

\* a call found no file and returned none; the same call made again probed
\* the disk again, found the file written meanwhile and cached it
C23_Witness ==
    \E t \in GetFileResults :
        LET r == res[t]
        IN /\ r.status = "ok" /\ r.repeat /\ ~r.prevStale /\ r.prevHandle = {}
           /\ r.probes = {r.path} /\ r.reads = {r.path}
           /\ r.handle # {} /\ r.handle = Get(source_files, r.path)
           /\ r.inserted = {r.path}

\* C29 -- disk text is a snapshot between reloads: outside reload no step
\* replaces or removes a text cached in source_files, whatever happens to
\* the file; every text a call returned since the last reload is the text
\* cached for its path, also when the file has changed or is gone; and two
\* callers that raced to load a path whose file changed between their reads
\* both got the text that was inserted first.
C29_DiskSnapshot ==
    /\ [][(reloadPc = "idle" /\ reloadPc' = "idle")
            => Extends(source_files', source_files)]_vars
    /\ [](\A t \in GetFileResults :
            (res[t].status = "ok" /\ ~res[t].stale /\ res[t].handle # {})
                => /\ res[t].handle = Get(source_files, res[t].path)
                   /\ \A u \in GetFileResults :
                         (/\ res[u].status = "ok" /\ ~res[u].stale
                          /\ res[u].handle # {} /\ res[u].path = res[t].path)
                            => res[u].handle = res[t].handle)

\* two callers read the same file with different contents; both returned the
\* text inserted first, which is no longer what the file holds
C29_Witness ==
    \E t, u \in GetFileResults :
        /\ t # u /\ res[t].path = res[u].path
        /\ res[t].status = "ok" /\ res[u].status = "ok"
        /\ ~res[t].stale /\ ~res[u].stale
        /\ res[t].reads # {} /\ res[u].reads # {}
        /\ res[t].root # res[u].root
        /\ res[t].handle = res[t].root /\ res[u].handle = res[t].root
        /\ Get(disk, res[t].path) # res[t].handle

\* the paths named by the directive lines of a text, and the number of lines
\* that name path
Named(text) ==
    UNION {IncludePath(LineText(text, Lines(text)[i])) : i \in 1..Len(Lines(text))}
TimesNamed(text, path) ==
    Cardinality({i \in 1..Len(Lines(text)) :
                    IncludePath(LineText(text, Lines(text)[i])) = {path}})
HasDirective(text) == Named(text) # {}

\* root names path twice, or names two files that both name path; every
\* file involved exists and the repeated one has no directive of its own
RepeatedInclude(root, path) ==
    /\ root \in DOMAIN disk /\ path \in DOMAIN disk
    /\ ~HasDirective(disk[path])
    /\ \/ TimesNamed(disk[root], path) = 2
       \/ \E p, q \in DOMAIN disk :
             /\ p # q /\ Named(disk[root]) = {p, q}
             /\ Named(disk[p]) = {path} /\ Named(disk[q]) = {path}

\* C24 -- duplicate (diamond) inclusion is rejected: a get_module(root) whose
\* expansion meets the same path in two directives that are not nested in
\* each other fails with the duplicate-include error.
C24_DuplicateRejected ==
    \A t \in GetModuleResults :
        (\E path \in DOMAIN disk : RepeatedInclude(res[t].path, path))
            => /\ res[t].status = "panic"
               /\ res[t].err = "include path already seen"

\* A names B twice: the second directive is refused as already seen
C24_TwiceRejected ==
    \E t \in GetModuleResults :
        /\ TimesNamed(disk[res[t].path], PB) = 2
        /\ res[t].err = "include path already seen"


\* C25 -- transitive expansion: the loop takes the topmost directive line of
\* the current text, whichever fragment brought it in, and the text that
\* get_source_new returns (the text that is compiled and cached as a module)
\* has no directive line left.
C25_FullyExpanded ==
    /\ \A p \in DOMAIN shader_modules : ~HasDirective(shader_modules[p].src)
    /\ \A t \in Threads :
          /\ th[t].pc = "compile" => ~HasDirective(th[t].source)
          /\ th[t].pc = "resolve" /\ ~th[t].isRoot =>
                /\ \E i \in 1..Len(Lines(th[t].source)) : Lines(th[t].source)[i] = th[t].line
                /\ IncludePath(LineText(th[t].source, th[t].line)) = {th[t].target}
                /\ \A i \in 1..Len(Lines(th[t].source)) :
                      Lines(th[t].source)[i].start < th[t].line.start =>
                          IncludePath(LineText(th[t].source, Lines(th[t].source)[i])) = {}

\* A includes B, B includes C, C includes D: the module of A is D's text
\* followed by the rest of A
C25_Witness ==
    /\ disk[PA] = TIncB /\ disk[PB] = IncludeLine(PC) /\ disk[PC] = IncludeLine(PD)
    /\ PA \in DOMAIN shader_modules
    /\ shader_modules[PA].src = <<"d", NL, "y">>


\* the paths named by the directives of the fragments of the store
StoreNamed ==
    UNION ({Named(disk[p]) : p \in DOMAIN disk}
           \cup {Named(constant_source_files[p]) : p \in DOMAIN constant_source_files})

\* C26 -- termination of get_source_new: the visited set holds only paths
\* named by directives of the store, so at most N of them, and every loop
\* iteration that does not fail adds one path that was not in it; the loop
\* therefore runs at most N times before an iteration ends the call, by
\* returning or by failing.
C26_Termination ==
    /\ [](\A t \in Threads :
            th[t].pc \in {"resolve", "compile"} =>
                /\ th[t].includes \subseteq StoreNamed
                /\ Cardinality(th[t].includes) <= Cardinality(StoreNamed))
    /\ [][\A t \in Threads :
             /\ th[t].pc = "gm_write" /\ th'[t].pc = "resolve" =>
                   th'[t].includes = {th'[t].target}
             /\ th[t].pc = "gm_write" /\ th'[t].pc = "compile" =>
                   th'[t].includes = {}
             /\ th[t].pc = "resolve" /\ th'[t].pc = "resolve" =>
                   /\ th'[t].target \notin th[t].includes
                   /\ th'[t].includes = th[t].includes \cup {th'[t].target}
             /\ th[t].pc = "resolve" /\ th'[t].pc = "compile" =>
                   th'[t].includes = th[t].includes
             /\ th[t].pc = "resolve" => th'[t].pc \in {"resolve", "compile", "idle"}]_vars

\* three iterations have each added a path: B, then C, then D
C26_Witness ==
    \E t \in Threads : th[t].pc = "resolve" /\ th[t].includes = {PB, PC, PD}


\* the paths the expansion of root can meet: those named by root's text and,
\* transitively, by the texts of the files they name
RECURSIVE NamedWithin(_, _)
NamedWithin(paths, depth) ==
    IF depth = 0 THEN paths
    ELSE NamedWithin(paths \cup UNION {Named(disk[p]) : p \in paths \cap DOMAIN disk},
                     depth - 1)
NamedFrom(root) ==
    IF root \in DOMAIN disk
    THEN NamedWithin(Named(disk[root]), Cardinality(DOMAIN disk))
    ELSE {}

\* A and C both include B, which includes nothing
SharedInclude ==
    disk[PA] = TIncB /\ disk[PB] = TPlain /\ disk[PC] = IncludeLine(PB)

\* C27 -- the visited set is per get_source_new call: while a root is being
\* expanded the set holds only paths met from that root, never a path from
\* the expansion of another root, so two roots that include the same file
\* are both expanded without the duplicate-include error.
C27_VisitedSetPerCall ==
    /\ \A t \in Threads :
          th[t].pc \in {"resolve", "compile"} =>
              th[t].includes \subseteq NamedFrom(th[t].path)
    /\ SharedInclude =>
          /\ \A t \in Threads : res[t].err # "include path already seen"
          /\ PA \in DOMAIN shader_modules => shader_modules[PA].src = <<"b", NL, "y">>
          /\ PC \in DOMAIN shader_modules => shader_modules[PC].src = <<"b">>

\* a pipeline whose vertex module A and fragment module C both include B
C27_Witness ==
    /\ SharedInclude
    /\ \E t \in Threads :
          /\ res[t].op = "get_render_pipeline" /\ res[t].status = "ok"
          /\ TheOne(TheOne(res[t].handle).vertex).src = <<"b", NL, "y">>
          /\ TheOne(res[t].handle).fragment # {}
          /\ TheOne(TheOne(res[t].handle).fragment).src = <<"b">>


\* C28 -- a pipeline miss asks for the vertex module first and for the
\* fragment module only if the template has a fragment stage; when both
\* stages name one path that path is compiled at most once in the call, both
\* stages getting the same module; and the thread does not hold the lock of
\* shader_modules when it starts a request.
C28_VertexThenFragment ==
    /\ \A t \in Threads :
          th[t].op = "get_render_pipeline" /\ th[t].pc \notin {"gp_read", "gp_write"} =>
             LET template == render_pipelines[th[t].label].template
             IN /\ th[t].stage = "vertex" /\ th[t].pc # "link" =>
                      /\ th[t].vmod = {} /\ th[t].fmod = {}
                      /\ th[t].path = template.vertex
                /\ th[t].stage = "fragment" /\ th[t].pc # "link" =>
                      /\ th[t].vmod # {} /\ th[t].fmod = {}
                      /\ template.fragment = {th[t].path}
                /\ th[t].pc = "link" =>
                      /\ th[t].vmod # {}
                      /\ TheOne(th[t].vmod).path = template.vertex
                      /\ template.fragment = {m.path : m \in th[t].fmod}
                /\ th[t].pc = "gm_read" => writer["shader_modules"] # t
    /\ \A t \in Threads :
          /\ res[t].op = "get_render_pipeline" /\ res[t].status = "ok"
          /\ res[t].links = 1
          /\ render_pipelines[res[t].label].template.fragment =
                {render_pipelines[res[t].label].template.vertex}
          => /\ res[t].compiles <= 1
             /\ TheOne(res[t].handle).fragment = TheOne(res[t].handle).vertex

\* a pipeline whose two stages name A was linked after one compilation of A
C28_Witness ==
    \E t \in Threads :
        /\ res[t].op = "get_render_pipeline" /\ res[t].status = "ok"
        /\ render_pipelines[res[t].label].template = TemplateAA
        /\ res[t].links = 1 /\ res[t].compiles = 1
        /\ TheOne(res[t].handle).fragment # {}


\* C30 -- a failed get_render_pipeline (or get_module) caches nothing for the
\* failing keys: the step in which the resolution or the compilation of a
\* module path fails leaves shader_modules and render_pipelines as they were,
\* with no module for the path and no pipeline for the label; none is there
\* afterwards either, and every pipeline a call returns is the stored one,
\* built from the cached modules of its template's paths.
C30_FailureCachesNothing ==
    /\ [](\A t \in Threads :
            /\ res[t].status = "panic" /\ res[t].err # "poisoned lock"
               /\ res[t].op \in {"get_module", "get_render_pipeline"} =>
                  /\ res[t].path \notin DOMAIN shader_modules
                  /\ res[t].op = "get_render_pipeline"
                     /\ res[t].label \in DOMAIN render_pipelines =>
                        /\ render_pipelines[res[t].label].pipeline = {}
                        /\ render_pipelines[res[t].label].template \in ExpandTemplates
            /\ res[t].status = "ok" /\ res[t].op = "get_render_pipeline" =>
                  LET entry == render_pipelines[res[t].label]
                      pipeline == TheOne(res[t].handle)
                  IN /\ entry.pipeline = res[t].handle
                     /\ pipeline.vertex = {shader_modules[entry.template.vertex]}
                     /\ pipeline.fragment =
                           {shader_modules[p] : p \in entry.template.fragment})
    /\ [][\A t \in Threads :
             /\ th[t].pc \in {"gm_write", "resolve", "compile"}
             /\ th'[t].pc = "idle" /\ res'[t].status = "panic"
             => /\ shader_modules' = shader_modules
                /\ render_pipelines' = render_pipelines
                /\ th[t].path \notin DOMAIN shader_modules']_vars

\* the fragment module of a pipeline failed to compile after its vertex
\* module had been cached
C30_Witness ==
    \E t \in Threads :
        /\ res[t].op = "get_render_pipeline" /\ res[t].status = "panic"
        /\ res[t].err = "shader module creation failed"
        /\ res[t].path = PC /\ PA \in DOMAIN shader_modules
        /\ render_pipelines[res[t].label].template = TemplateAC


\* the sources of template are valid: each module path has a file whose text
\* has no directive, or whose first line includes a file without directives
ValidSource(path) ==
    /\ path \in DOMAIN disk
    /\ \/ ~HasDirective(disk[path])
       \/ /\ disk[path] = TIncB
          /\ PB \in DOMAIN disk /\ ~HasDirective(disk[PB])
ValidSources(template) ==
    /\ ValidSource(ModulePaths(template)[1])
    /\ \A p \in ModulePaths(template)[2] : ValidSource(p)

\* C31 -- failure isolation between keys: when a get_module(path) call has
\* failed in resolution or compilation, the next call, a get_render_pipeline
\* for a registered label whose template does not use path and whose sources
\* are valid, succeeds (unless the backend refuses one of its own modules).
C31_FailureIsolation ==
    [][\A t \in Threads :
          /\ res'[t] # res[t]
          /\ res[t].op = "get_module" /\ res[t].status = "panic"
          /\ res[t].err # "poisoned lock"
          /\ res'[t].op = "get_render_pipeline"
          /\ res'[t].label \in DOMAIN render_pipelines
          /\ LET template == render_pipelines[res'[t].label].template
             IN /\ ValidSources(template)
                /\ res[t].path # ModulePaths(template)[1]
                /\ res[t].path \notin ModulePaths(template)[2]
          => \/ res'[t].status = "ok"
             \/ res'[t].err = "shader module creation failed"]_vars


\* C32 -- error context for includes: when get_source_new fails because an
\* included path is in neither table or in both, the error names the
\* included path.
C32_ErrorNamesInclude ==
    \A t \in Threads :
        /\ res[t].status = "panic"
        /\ res[t].err \in {"available on disk and in constant shaders",
                           "not found on disk or in constant shaders"}
        /\ res[t].target # res[t].path
        => res[t].target \in res[t].errPath


\* C33 -- a cache-hit get_render_pipeline(label) takes only the read guard of
\* render_pipelines: while it holds it no write guard is alive on that lock
\* and the thread holds no write guard at all; another caller's read() is
\* not kept waiting by it; and the hit returns the cached pipeline without a
\* compilation, a link or a file read, leaving every table, every lock and
\* the backend's counters as they were.
C33_CacheHit ==
    /\ [](\A t \in Threads :
            th[t].pc = "gp_held" =>
               /\ \A l \in LockNames : writer[l] # t
               /\ writer["render_pipelines"] = NoThread
               /\ \A u \in Threads \ {t} :
                     th[u].pc = "gp_read" => ENABLED GP_ReadLock(u))
    /\ [][\A t \in Threads :
             /\ th[t].pc \in {"gp_read", "gp_held"} /\ th'[t] # th[t] =>
                   UNCHANGED <<tablesV, histV, writer, disk>>
             /\ th[t].pc = "gp_held" /\ th[t].label \in DOMAIN render_pipelines
                /\ render_pipelines[th[t].label].pipeline # {}
                /\ th'[t] # th[t] =>
                   /\ th'[t].pc = "idle"
                   /\ res'[t].status = "ok"
                   /\ res'[t].handle = render_pipelines[th[t].label].pipeline
                   /\ res'[t].compiles = 0 /\ res'[t].links = 0
                   /\ res'[t].reads = {} /\ res'[t].probes = {}
                   /\ ~res'[t].missed
                   /\ UNCHANGED poisoned]_vars

\* two callers hold the read guard at once, both about to return the
\* cached pipeline
C33_Witness ==
    \A t \in Threads :
        /\ th[t].pc = "gp_held"
        /\ th[t].label \in DOMAIN render_pipelines
        /\ render_pipelines[th[t].label].pipeline # {}


\* C34 -- the Mutex-based manager of the root crate: when get_module(path)
\* returns and the caller's previous call was get_module(path) too, with no
\* reload() in between, both calls return the same handle and the backend
\* compiler ran exactly once across the two calls.
C34_MutexCoherency ==
    \A t \in GetModuleResults :
        LET r == res[t]
        IN (r.status = "ok" /\ r.repeat /\ ~r.prevStale)
           => /\ r.handle = r.prevHandle
              /\ r.prevCompiles + r.compiles = 1


\* C35 -- the earlier revision of the registry: register_render_pipeline on
\* a label that is registered returns without effect when the template
\* equals the stored one and panics when it differs; either way the stored
\* template and the compiled pipeline of the label (of every label) are as
\* they were.
C35_ReRegistration ==
    [][\A t \in Threads, label \in Labels, template \in Templates :
          /\ MXE_RegisterRenderPipeline(t, label, template)
          /\ label \in DOMAIN render_pipelines
          /\ ~Poisoned("render_pipelines")
          => /\ render_pipelines' = render_pipelines
             /\ shader_modules' = shader_modules
             /\ IF render_pipelines[label].template = template
                THEN res'[t].status = "ok" /\ poisoned' = poisoned
                ELSE /\ res'[t].status = "panic"
                     /\ res'[t].err = "already registered with different template"]_vars

\* a label whose pipeline is compiled was registered again with another
\* template: the call panicked, the pipeline and the first template are there
C35_Witness ==
    \E t \in Threads, label \in Labels :
        /\ res[t].op = "register_render_pipeline" /\ res[t].label = label
        /\ res[t].err = "already registered with different template"
        /\ label \in DOMAIN render_pipelines
        /\ render_pipelines[label].pipeline # {}

====
